---- MODULE Spec2Model ----
(***************************************************************************)
(* A model of the Wololo CSG renderer (src/wololo/renderer/renderer.c):   *)
(* the node arena kept in the renderer's slab, and the lifecycle of the   *)
(* Vulkan backend (new_renderer, draw_frame_with_renderer, del_renderer). *)
(*                                                                         *)
(* The arena is modelled as built without NDEBUG: nothing under src/      *)
(* defines it, so every assert() evaluates its argument and aborts the    *)
(* process when it is false.                                               *)
(***************************************************************************)
EXTENDS Integers, Sequences, FiniteSets, TLC

\* ------------------------------------------------------------------------
\* Bounds of the model
\* ------------------------------------------------------------------------
MaxCapacity == 3
MaxCalls == 4
MaxImages == 3
MaxFrames == 3
MaxFamilies == 2
MaxMinImages == 1
MaxFormats == 2
MaxModes == 2
MaxLayers == 3
MaxUpdates == 2
MaxAppNew == 2
MaxStaleCalls == 2

\* ------------------------------------------------------------------------
\* Program constants
\* ------------------------------------------------------------------------
DemoCapacity == 8
MAX_FRAMES_IN_FLIGHT == 2
WordBits == 64

Capacities == (0..MaxCapacity) \cup {DemoCapacity}

NodeTypes ==
    {"WO_LEAF_SPHERE", "WO_LEAF_INFINITE_PLANAR_PARTITION",
     "WO_NODE_BINOP_UNION_OF", "WO_NODE_BINOP_INTERSECTION_OF",
     "WO_NODE_BINOP_DIFFERENCE_OF"}
LeafTypes == {"WO_LEAF_SPHERE", "WO_LEAF_INFINITE_PLANAR_PARTITION"}
BinopTypes == NodeTypes \ LeafTypes

\* The payloads the callers of the model pass.
Radii == {1, 2}
Normals == {"up"}

\* ------------------------------------------------------------------------
\* State
\* ------------------------------------------------------------------------
VARIABLES
    max_node_count,          \* Wo_Renderer.max_node_count
    current_node_count,      \* Wo_Renderer.current_node_count
    node_type_table,         \* Wo_Renderer.node_type_table
    node_info_table,         \* Wo_Renderer.node_info_table
    node_is_nonroot_bitset,  \* Wo_Renderer.node_is_nonroot_bitset: word -> set of set bits
    halted,                  \* "no", or how the process died: "assert", "segfault", "corrupt"
    calls,                   \* history: one record per node-creation call made
    pc,                      \* where the client of the renderer is
    renderer_ptr,            \* the Wo_Renderer* in hand: "none", "valid", "NULL", "freed"
    R,                       \* the Vulkan fields of the Wo_Renderer
    vk_log,                  \* history: the Vulkan objects created and destroyed, in order
    failed_at,               \* history: the construction stage that detected a failure
    image_index,             \* draw_frame_with_renderer's local image_index
    fence_signaled,          \* the state of the two in-flight fences on the device
    pending,                 \* the submissions whose commands the GPU has not finished
    signal_due,              \* the fences of finished submissions, not yet signaled
    frames_drawn,            \* history: the draw_frame calls that completed
    frame_log,                \* history: the steps of the latest draw_frame call, in order
    app,                     \* the fields of the Wo_App
    app_log,                 \* history: the callbacks and renderer calls app_run made
    the_app_in_use,          \* app.c's global the_app_in_use
    last_acquired_by         \* history: image -> the frame slot that acquired it last

arena_vars ==
    <<max_node_count, current_node_count, node_type_table, node_info_table,
      node_is_nonroot_bitset>>

gpu_vars ==
    <<pc, renderer_ptr, R, vk_log, failed_at, image_index, fence_signaled,
      pending, signal_due, frames_drawn, frame_log>>

app_vars == <<app, app_log, the_app_in_use>>

vars == <<arena_vars, halted, calls, gpu_vars, app_vars, last_acquired_by>>

\* The Wo_App before app_new: no callbacks, no renderer.
NoApp ==
    [extension_init_cb |-> FALSE,
     extension_update_cb |-> FALSE,
     extension_de_init_cb |-> FALSE,
     renderer |-> "NULL",
     total_running_behind_by |-> 0]

\* ------------------------------------------------------------------------
\* The arena
\* ------------------------------------------------------------------------

\* A Wo_Node_Argument: a placement of a child node.
Wo_Node_Argument(n) == [orientation |-> "identity", offset |-> "zero", node |-> n]

\* The zero bytes calloc leaves in a NodeInfo slot.
ZeroArg == [orientation |-> "0", offset |-> "0", node |-> 0]
ZeroInfo == [radius |-> 0, normal |-> "0", left |-> ZeroArg, right |-> ZeroArg]

\* The arena fields of the renderer as one value.
Arena ==
    [max_node_count |-> max_node_count,
     current_node_count |-> current_node_count,
     node_type_table |-> node_type_table,
     node_info_table |-> node_info_table,
     node_is_nonroot_bitset |-> node_is_nonroot_bitset]

\* allocate_renderer: the slab is zeroed by calloc; enum value 0 is
\* WO_LEAF_SPHERE; the bitset has max_node_count/64 + 1 words.
allocate_renderer(cap) ==
    [max_node_count |-> cap,
     current_node_count |-> 0,
     node_type_table |-> [i \in 0..(cap - 1) |-> "WO_LEAF_SPHERE"],
     node_info_table |-> [i \in 0..(cap - 1) |-> ZeroInfo],
     node_is_nonroot_bitset |-> [w \in 0..(cap \div WordBits) |-> {}]]

\* The value of a Wo_Node that no call produced (history only).
NoNode == -1

\* allocate_node: fails on a full arena, else hands out the next index.
allocate_node_offbyone(a) ==
    IF a.current_node_count = a.max_node_count + 1
    THEN [ok |-> FALSE, node |-> NoNode, arena |-> a]
    ELSE [ok |-> TRUE,
          node |-> a.current_node_count,
          arena |-> [a EXCEPT !.current_node_count = @ + 1]]

allocate_node_preincrement(a) ==
    IF a.current_node_count = a.max_node_count
    THEN [ok |-> FALSE, node |-> NoNode, arena |-> a]
    ELSE [ok |-> TRUE,
          node |-> a.current_node_count + 1,
          arena |-> [a EXCEPT !.current_node_count = @ + 1]]

allocate_node(a) ==
    IF a.current_node_count = a.max_node_count
    THEN [ok |-> FALSE, node |-> NoNode, arena |-> a]
    ELSE [ok |-> TRUE,
          node |-> a.current_node_count,
          arena |-> [a EXCEPT !.current_node_count = @ + 1]]

\* set_nonroot_node: bitset[node/64] |= 1 << (node%64).
set_nonroot_node_assign(a, node) ==
    [a EXCEPT !.node_is_nonroot_bitset[node \div WordBits] = {node % WordBits}]

set_nonroot_node(a, node) ==
    [a EXCEPT !.node_is_nonroot_bitset[node \div WordBits] =
                  @ \cup {node % WordBits}]

\* wo_renderer_isroot: the node's bit in its word is clear.
wo_renderer_isroot(a, node) ==
    (node % WordBits) \notin a.node_is_nonroot_bitset[node \div WordBits]

\* What a node-creation call gives its caller when its assert fails: the
\* process aborts before anything is written.
Aborted(a) == [ok |-> FALSE, node |-> NoNode, arena |-> a]

add_sphere_node_marks(a, radius) ==
    LET r == allocate_node(a) IN
    IF ~r.ok THEN Aborted(a)
    ELSE [r EXCEPT !.arena = set_nonroot_node(
            [r.arena EXCEPT
               !.node_type_table[r.node] = "WO_LEAF_SPHERE",
               !.node_info_table[r.node].radius = radius], r.node)]

add_sphere_node(a, radius) ==
    LET r == allocate_node(a) IN
    IF ~r.ok THEN Aborted(a)
    ELSE [r EXCEPT !.arena =
            [r.arena EXCEPT
               !.node_type_table[r.node] = "WO_LEAF_SPHERE",
               !.node_info_table[r.node].radius = radius]]

add_infinite_planar_partition_node(a, outward_facing_normal) ==
    LET r == allocate_node(a) IN
    IF ~r.ok THEN Aborted(a)
    ELSE [r EXCEPT !.arena =
            [r.arena EXCEPT
               !.node_type_table[r.node] = "WO_LEAF_INFINITE_PLANAR_PARTITION",
               !.node_info_table[r.node].normal = outward_facing_normal]]

add_binop_of_node_marksfirst(a, type, left, right) ==
    LET marked == set_nonroot_node(set_nonroot_node(a, left.node), right.node)
        r == allocate_node(marked)
    IN IF ~r.ok THEN Aborted(marked)
       ELSE [r EXCEPT !.arena =
               [r.arena EXCEPT
                  !.node_type_table[r.node] = type,
                  !.node_info_table[r.node].left = left,
                  !.node_info_table[r.node].right = right]]

add_binop_of_node_intochild(a, type, left, right) ==
    LET r == allocate_node(a) IN
    IF ~r.ok THEN Aborted(a)
    ELSE [r EXCEPT !.arena =
            set_nonroot_node(
              set_nonroot_node(
                [r.arena EXCEPT
                   !.node_type_table[left.node] = type,
                   !.node_info_table[left.node].left = left,
                   !.node_info_table[left.node].right = right],
                left.node),
              right.node)]

\* The body the three combinators share, up to the type they store.
add_binop_of_node(a, type, left, right) ==
    LET r == allocate_node(a) IN
    IF ~r.ok THEN Aborted(a)
    ELSE [r EXCEPT !.arena =
            set_nonroot_node(
              set_nonroot_node(
                [r.arena EXCEPT
                   !.node_type_table[r.node] = type,
                   !.node_info_table[r.node].left = left,
                   !.node_info_table[r.node].right = right],
                left.node),
              right.node)]

add_union_of_node_leftonly(a, left, right) ==
    LET r == allocate_node(a) IN
    IF ~r.ok THEN Aborted(a)
    ELSE [r EXCEPT !.arena =
            set_nonroot_node(
                [r.arena EXCEPT
                   !.node_type_table[r.node] = "WO_NODE_BINOP_UNION_OF",
                   !.node_info_table[r.node].left = left,
                   !.node_info_table[r.node].right = right],
                left.node)]

add_union_of_node(a, left, right) ==
    add_binop_of_node(a, "WO_NODE_BINOP_UNION_OF", left, right)

add_intersection_of_node(a, left, right) ==
    add_binop_of_node(a, "WO_NODE_BINOP_INTERSECTION_OF", left, right)

add_difference_of_node_marksself(a, left, right) ==
    LET r == allocate_node(a) IN
    IF ~r.ok THEN Aborted(a)
    ELSE [r EXCEPT !.arena =
            set_nonroot_node(
              set_nonroot_node(
                [r.arena EXCEPT
                   !.node_type_table[r.node] = "WO_NODE_BINOP_DIFFERENCE_OF",
                   !.node_info_table[r.node].left = left,
                   !.node_info_table[r.node].right = right],
                left.node),
              r.node)]

add_difference_of_node(a, left, right) ==
    add_binop_of_node(a, "WO_NODE_BINOP_DIFFERENCE_OF", left, right)

\* ------------------------------------------------------------------------
\* The Vulkan backend: construction (vk_init_renderer)
\* ------------------------------------------------------------------------

\* A Vulkan handle is VK_NULL_HANDLE or names the object it refers to.
Null == <<"VK_NULL_HANDLE", 0>>
Obj(kind, i) == <<kind, i>>

Create(o) == [ev |-> "create", obj |-> o]
Destroy(o) == [ev |-> "destroy", obj |-> o]
WaitIdle == [ev |-> "wait_idle", obj |-> Obj("device", 0)]

\* vkDestroy* and vkFreeMemory ignore VK_NULL_HANDLE.
DestroyHandle(h) == IF h = Null THEN <<>> ELSE <<Destroy(h)>>

Frames == 0..(MAX_FRAMES_IN_FLIGHT - 1)

\* A C array of n handles as a function on 0..n-1; the NULL pointer is the
\* empty function.
NullArray == <<>>
ZeroedArray(n) == [i \in 0..(n - 1) |-> Null]
IsNullPtr(arr) == DOMAIN arr = {}

\* The Vulkan fields of the Wo_Renderer as calloc leaves them.
\* A VkSurfaceFormatKHR of zero bytes.
ZeroSurfaceFormat ==
    [format |-> "VK_FORMAT_UNDEFINED",
     colorSpace |-> "VK_COLOR_SPACE_SRGB_NONLINEAR_KHR"]

ZeroRenderer ==
    [vk_instance |-> Null,
     are_vk_validation_layers_enabled |-> FALSE,
     vk_available_validation_layers |-> <<>>,
     vk_enabled_validation_layer_count |-> 0,
     vk_enabled_validation_layer_names |-> <<>>,
     vk_physical_device_count |-> 0,
     vk_queue_family_count |-> 0,
     vk_graphics_queue_family_index |-> 0,
     vk_present_queue_family_index |-> 0,
     vk_device_queue_family_index |-> 0,
     vk_device |-> Null,
     vk_enabled_device_extension_count |-> 0,
     vk_available_format_count |-> 0,
     vk_available_present_mode_count |-> 0,
     vk_available_formats |-> <<>>,
     vk_available_present_modes |-> <<>>,
     vk_chosen_present_surface_format |-> ZeroSurfaceFormat,
     vk_chosen_present_surface_mode |-> "VK_PRESENT_MODE_IMMEDIATE_KHR",
     vk_present_surface |-> Null,
     vk_swapchain |-> Null,
     vk_present_surface_capabilities |->
         [minImageCount |-> 0, maxImageCount |-> 0],
     vk_swapchain_images_count |-> 0,
     vk_swapchain_image_views |-> NullArray,
     vk_swapchain_framebuffers |-> NullArray,
     vk_swapchain_fbs_ok_count |-> 0,
     vk_shaders_loaded_ok |-> FALSE,
     vk_vert_shader_module |-> Null,
     vk_frag_shader_module |-> Null,
     vk_pipeline_layout_created_ok |-> FALSE,
     vk_descriptor_set_layout |-> Null,
     vk_pipeline_layout |-> Null,
     vk_render_pass |-> Null,
     vk_render_pass_ok |-> FALSE,
     vk_descriptor_set_layout_ok |-> FALSE,
     vk_graphics_pipeline |-> Null,
     vk_graphics_pipeline_ok |-> FALSE,
     vk_command_buffer_pool |-> Null,
     vk_command_buffer_pool_ok |-> FALSE,
     vk_command_buffers_ok |-> FALSE,
     uniform_buffers |-> NullArray,
     uniform_buffers_memory |-> NullArray,
     vk_descriptor_pool |-> Null,
     vk_descriptor_pool_ok |-> FALSE,
     vk_image_available_semaphores |-> [f \in Frames |-> Null],
     vk_render_finished_semaphores |-> [f \in Frames |-> Null],
     vk_inflight_fences |-> [f \in Frames |-> Null],
     vk_images_inflight_fences |-> NullArray,
     current_frame_index |-> 0,
     vk_semaphores_oks |-> [f \in Frames |-> FALSE]]

\* What a stage of vk_init_renderer leaves: the renderer, the Vulkan calls
\* that created something, and whether it fell through ("ok"), jumped to
\* fatal_error ("fatal") or died in an assert ("abort").
Ok(r, ev) == [r |-> r, ev |-> ev, out |-> "ok"]
Fatal(r, ev) == [r |-> r, ev |-> ev, out |-> "fatal"]
Abort(r, ev) == [r |-> r, ev |-> ev, out |-> "abort"]

default_vk_validation_layer_names == <<"VK_LAYER_KHRONOS_validation">>

\* The layers handed to vkCreateInstance or vkCreateDevice in create_info.
RequestLayers(what, names) ==
    [ev |-> "enabled_layers", obj |-> <<what, names>>]

\* The tally of the desired layers from index `index` on: a desired layer
\* is enabled when some available layer has its name.
RECURSIVE tally_validation_layers_all(_, _, _)
tally_validation_layers_all(available, index, enabled) ==
    IF index >= Len(default_vk_validation_layer_names) THEN enabled
    ELSE tally_validation_layers_all(
             available, index + 1,
             Append(enabled, default_vk_validation_layer_names[index + 1]))

RECURSIVE tally_validation_layers(_, _, _)
tally_validation_layers(available, index, enabled) ==
    IF index >= Len(default_vk_validation_layer_names) THEN enabled
    ELSE LET req_name == default_vk_validation_layer_names[index + 1]
             found == \E k \in 1..Len(available) : available[k] = req_name
         IN tally_validation_layers(
                available, index + 1,
                IF found THEN Append(enabled, req_name) ELSE enabled)

\* are_vk_validation_layers_enabled is WO_DEBUG; the available layers are
\* enumerated only when it is set.
enable_validation_layers(r, wo_debug, available) ==
    IF wo_debug
    THEN LET enabled == tally_validation_layers(available, 0, <<>>) IN
         [r EXCEPT !.are_vk_validation_layers_enabled = TRUE,
                   !.vk_available_validation_layers = available,
                   !.vk_enabled_validation_layer_count = Len(enabled),
                   !.vk_enabled_validation_layer_names = enabled]
    ELSE [r EXCEPT !.are_vk_validation_layers_enabled = FALSE,
                   !.vk_enabled_validation_layer_count = 0,
                   !.vk_enabled_validation_layer_names = <<>>]

\* vkCreateInstance, asked for the enabled layers.
init_instance(r, wo_debug, available, ok) ==
    LET r1 == enable_validation_layers(r, wo_debug, available)
        request ==
            RequestLayers("instance", r1.vk_enabled_validation_layer_names)
    IN IF ok THEN Ok([r1 EXCEPT !.vk_instance = Obj("instance", 0)],
                     <<request, Create(Obj("instance", 0))>>)
       ELSE Fatal(r1, <<request>>)

\* vkEnumeratePhysicalDevices: none found is fatal.
init_physical_device(r, count) ==
    LET r1 == [r EXCEPT !.vk_physical_device_count = count] IN
    IF count = 0 THEN Fatal(r1, <<>>) ELSE Ok(r1, <<>>)

\* The logical device: the minimum extension must be there; the one queue
\* is requested for the family index the renderer holds at this point.
init_device(r, ext_found, ok) ==
    LET r1 == [r EXCEPT !.vk_enabled_device_extension_count =
                            IF ext_found THEN 1 ELSE 0]
        request ==
            RequestLayers("device",
                          IF r.are_vk_validation_layers_enabled
                          THEN default_vk_validation_layer_names ELSE <<>>)
    IN
    IF ~ext_found THEN Fatal(r1, <<>>)
    ELSE IF ~ok THEN Fatal(r1, <<request>>)
    ELSE Ok([r1 EXCEPT !.vk_device = Obj("device", 0),
                       !.vk_device_queue_family_index =
                           r.vk_graphics_queue_family_index],
            <<request, Create(Obj("device", 0))>>)

\* glfwCreateWindowSurface.
init_surface(r, ok) ==
    IF ok THEN Ok([r EXCEPT !.vk_present_surface = Obj("surface", 0)],
                  <<Create(Obj("surface", 0))>>)
    ELSE Fatal(r, <<>>)

\* The loop over the queue families, family by family, from index `index`
\* on: gfx and prs are the indices found so far.
RECURSIVE scan_queue_families_keepfirst(_, _, _, _)
scan_queue_families_keepfirst(families, index, gfx, prs) ==
    IF index >= Len(families) THEN [gfx |-> gfx, prs |-> prs]
    ELSE LET fam == families[index + 1]
             gfx1 == IF fam.graphics /\ gfx = Len(families) THEN index ELSE gfx
             prs1 == IF fam.present /\ prs = Len(families) THEN index ELSE prs
         IN IF gfx1 # Len(families) /\ prs1 # Len(families)
            THEN [gfx |-> gfx1, prs |-> prs1]
            ELSE scan_queue_families_keepfirst(families, index + 1, gfx1, prs1)

RECURSIVE scan_queue_families(_, _, _, _)
scan_queue_families(families, index, gfx, prs) ==
    IF index >= Len(families) THEN [gfx |-> gfx, prs |-> prs]
    ELSE LET fam == families[index + 1]
             gfx1 == IF fam.graphics THEN index ELSE gfx
             prs1 == IF fam.present THEN index ELSE prs
         IN IF gfx1 # Len(families) /\ prs1 # Len(families)
            THEN [gfx |-> gfx1, prs |-> prs1]
            ELSE scan_queue_families(families, index + 1, gfx1, prs1)

init_queue_families(r, families) ==
    LET n == Len(families)
        found == scan_queue_families(families, 0, n, n)
        r1 == [r EXCEPT !.vk_queue_family_count = n,
                        !.vk_graphics_queue_family_index = found.gfx,
                        !.vk_present_queue_family_index = found.prs]
    IN IF found.gfx = n THEN Fatal(r1, <<>>)
       ELSE IF found.prs = n THEN Fatal(r1, <<>>)
       ELSE Ok(r1, <<>>)

\* vkGetPhysicalDeviceSurfaceCapabilitiesKHR stores the capabilities; the
\* surface must offer at least one format and one present mode.
init_swapchain_support_either(r, caps, format_count, present_mode_count) ==
    LET r1 == [r EXCEPT !.vk_present_surface_capabilities = caps,
                        !.vk_available_format_count = format_count,
                        !.vk_available_present_mode_count = present_mode_count]
    IN IF format_count > 0 \/ present_mode_count > 0 THEN Ok(r1, <<>>)
       ELSE Fatal(r1, <<>>)

init_swapchain_support(r, caps, format_count, present_mode_count) ==
    LET r1 == [r EXCEPT !.vk_present_surface_capabilities = caps,
                        !.vk_available_format_count = format_count,
                        !.vk_available_present_mode_count = present_mode_count]
    IN IF format_count > 0 /\ present_mode_count > 0 THEN Ok(r1, <<>>)
       ELSE Fatal(r1, <<>>)

\* The format the renderer prefers.
ideal_format_anyspace(f) == f.format = "VK_FORMAT_B8G8R8A8_SRGB"

ideal_format(f) ==
    /\ f.format = "VK_FORMAT_B8G8R8A8_SRGB"
    /\ f.colorSpace = "VK_COLOR_SPACE_SRGB_NONLINEAR_KHR"

\* The scan for an ideal format from index i on; 0, the first available
\* format, when there is none.
RECURSIVE ideal_format_index(_, _)
ideal_format_index(r, i) ==
    IF i >= r.vk_available_format_count THEN 0
    ELSE IF ideal_format(r.vk_available_formats[i + 1]) THEN i
    ELSE ideal_format_index(r, i + 1)

choose_present_format(r) ==
    [r EXCEPT !.vk_chosen_present_surface_format =
                  r.vk_available_formats[ideal_format_index(r, 0) + 1]]

\* The scan for VK_PRESENT_MODE_MAILBOX_KHR from index i on; the count when
\* there is none.
RECURSIVE ideal_mode_index(_, _)
ideal_mode_index(r, i) ==
    IF i >= r.vk_available_present_mode_count
    THEN r.vk_available_present_mode_count
    ELSE IF r.vk_available_present_modes[i + 1] = "VK_PRESENT_MODE_MAILBOX_KHR"
    THEN i
    ELSE ideal_mode_index(r, i + 1)

choose_present_mode_firstavailable(r) ==
    LET ideal_index == ideal_mode_index(r, 0) IN
    [r EXCEPT !.vk_chosen_present_surface_mode =
        IF ideal_index = r.vk_available_present_mode_count
        THEN r.vk_available_present_modes[1]
        ELSE r.vk_available_present_modes[ideal_index + 1]]

choose_present_mode(r) ==
    LET ideal_index == ideal_mode_index(r, 0) IN
    [r EXCEPT !.vk_chosen_present_surface_mode =
        IF ideal_index = r.vk_available_present_mode_count
        THEN "VK_PRESENT_MODE_FIFO_KHR"
        ELSE r.vk_available_present_modes[ideal_index + 1]]

MIN(A, B) == IF A < B THEN A ELSE B

\* The number of images asked of the swapchain: one more than the minimum,
\* capped by the maximum.
image_count(caps) == MIN(1 + caps.minImageCount, caps.maxImageCount)

\* swapchain_create_info.minImageCount as handed to vkCreateSwapchainKHR.
RequestImages(n) == [ev |-> "create_info", obj |-> <<"minImageCount", n>>]

\* vkCreateSwapchainKHR.
init_swapchain(r, ok) ==
    LET request == RequestImages(image_count(r.vk_present_surface_capabilities))
    IN IF ok THEN Ok([r EXCEPT !.vk_swapchain = Obj("swapchain", 0)],
                     <<request, Create(Obj("swapchain", 0))>>)
       ELSE Fatal(r, <<request>>)

\* vkGetSwapchainImagesKHR: the count, then the images.
init_swapchain_images(r, n, ok) ==
    LET r1 == [r EXCEPT !.vk_swapchain_images_count = n] IN
    IF ok THEN Ok(r1, <<>>) ELSE Fatal(r1, <<>>)

\* One image view per image; the first failure (at index fail_at, if below
\* the count) jumps to fatal_error.
init_image_views(r, fail_at) ==
    LET n == r.vk_swapchain_images_count
        made == IF fail_at < n THEN fail_at ELSE n
        views == [i \in 0..(n - 1) |->
                    IF i < made THEN Obj("image_view", i) ELSE Null]
        r1 == [r EXCEPT !.vk_swapchain_image_views = views]
        ev == [k \in 1..made |-> Create(Obj("image_view", k - 1))]
    IN IF fail_at < n THEN Fatal(r1, ev) ELSE Ok(r1, ev)

\* vkCreateRenderPass.
init_render_pass(r, ok) ==
    IF ok THEN Ok([r EXCEPT !.vk_render_pass = Obj("render_pass", 0),
                            !.vk_render_pass_ok = TRUE],
                  <<Create(Obj("render_pass", 0))>>)
    ELSE Fatal(r, <<>>)

\* vkCreateDescriptorSetLayout.
init_descriptor_set_layout(r, ok) ==
    IF ok THEN Ok([r EXCEPT !.vk_descriptor_set_layout =
                                Obj("descriptor_set_layout", 0),
                            !.vk_descriptor_set_layout_ok = TRUE],
                  <<Create(Obj("descriptor_set_layout", 0))>>)
    ELSE Fatal([r EXCEPT !.vk_descriptor_set_layout_ok = FALSE], <<>>)

\* vk_load_shader_module: the handle, or VK_NULL_HANDLE when
\* vkCreateShaderModule fails.
vk_load_shader_module(which, ok) ==
    IF ok THEN Obj("shader_module", which) ELSE Null

\* Both shaders are loaded, then checked; a file that cannot be opened
\* fails the assert in vk_load_shader_module.
init_shaders(r, files_open, vert_ok, frag_ok) ==
    IF ~files_open THEN Abort(r, <<>>)
    ELSE
    LET vert == vk_load_shader_module(0, vert_ok)
        frag == vk_load_shader_module(1, frag_ok)
        r1 == [r EXCEPT !.vk_shaders_loaded_ok = FALSE,
                        !.vk_vert_shader_module = vert,
                        !.vk_frag_shader_module = frag]
        ev == (IF vert_ok THEN <<Create(vert)>> ELSE <<>>)
              \o (IF frag_ok THEN <<Create(frag)>> ELSE <<>>)
    IN IF vert = Null THEN Fatal(r1, ev)
       ELSE IF frag = Null THEN Fatal(r1, ev)
       ELSE Ok([r1 EXCEPT !.vk_shaders_loaded_ok = TRUE], ev)

\* vkCreatePipelineLayout.
init_pipeline_layout(r, ok) ==
    IF ok THEN Ok([r EXCEPT !.vk_pipeline_layout = Obj("pipeline_layout", 0),
                            !.vk_pipeline_layout_created_ok = TRUE],
                  <<Create(Obj("pipeline_layout", 0))>>)
    ELSE Fatal([r EXCEPT !.vk_pipeline_layout_created_ok = FALSE], <<>>)

\* vkCreateGraphicsPipelines.
init_graphics_pipeline(r, ok) ==
    IF ok THEN Ok([r EXCEPT !.vk_graphics_pipeline = Obj("pipeline", 0),
                            !.vk_graphics_pipeline_ok = TRUE],
                  <<Create(Obj("pipeline", 0))>>)
    ELSE Fatal([r EXCEPT !.vk_graphics_pipeline_ok = FALSE], <<>>)

\* The Create events of the handles of arr that are not VK_NULL_HANDLE, in
\* index order from index i on.
RECURSIVE CreatedIn(_, _)
CreatedIn(arr, i) ==
    IF i \notin DOMAIN arr THEN <<>>
    ELSE (IF arr[i] = Null THEN <<>> ELSE <<Create(arr[i])>>)
         \o CreatedIn(arr, i + 1)

\* The largest element of a non-empty set of numbers.
Max(S) == CHOOSE x \in S : \A y \in S : y <= x

\* One framebuffer per image. A failed vkCreateFramebuffer is reported and
\* the loop goes on; each success stores its index i in
\* vk_swapchain_fbs_ok_count.
init_framebuffers(r, fails) ==
    LET n == r.vk_swapchain_images_count
        fbs == [i \in 0..(n - 1) |->
                  IF i \in fails THEN Null ELSE Obj("framebuffer", i)]
        oks == (0..(n - 1)) \ fails
    IN Ok([r EXCEPT !.vk_swapchain_framebuffers = fbs,
                    !.vk_swapchain_fbs_ok_count =
                        IF oks = {} THEN @ ELSE Max(oks)],
          CreatedIn(fbs, 0))

\* vkCreateCommandPool.
init_command_pool(r, ok) ==
    IF ok THEN Ok([r EXCEPT !.vk_command_buffer_pool = Obj("command_pool", 0),
                            !.vk_command_buffer_pool_ok = TRUE],
                  <<Create(Obj("command_pool", 0))>>)
    ELSE Fatal([r EXCEPT !.vk_command_buffer_pool_ok = FALSE], <<>>)

\* vkAllocateCommandBuffers: the buffers belong to the pool and go with it.
init_command_buffers(r, ok) ==
    IF ok THEN Ok([r EXCEPT !.vk_command_buffers_ok = TRUE], <<>>)
    ELSE Fatal([r EXCEPT !.vk_command_buffers_ok = FALSE], <<>>)

\* new_vk_uniform_buffer for each image: a failed vkCreateBuffer (at index
\* fail_at, if below the count) fails the assert in new_vk_buffer.
init_uniform_buffers(r, fail_at) ==
    LET n == r.vk_swapchain_images_count
        made == IF fail_at < n THEN fail_at ELSE n
        bufs == [i \in 0..(n - 1) |->
                   IF i < made THEN Obj("uniform_buffer", i) ELSE Null]
        mems == [i \in 0..(n - 1) |->
                   IF i < made THEN Obj("uniform_memory", i) ELSE Null]
        r1 == [r EXCEPT !.uniform_buffers = bufs,
                        !.uniform_buffers_memory = mems]
        ev == [k \in 1..(2 * made) |->
                 IF k % 2 = 1 THEN Create(Obj("uniform_buffer", (k - 1) \div 2))
                 ELSE Create(Obj("uniform_memory", (k - 1) \div 2))]
    IN IF fail_at < n THEN Abort(r1, ev) ELSE Ok(r1, ev)

\* vkCreateDescriptorPool.
init_descriptor_pool(r, ok) ==
    IF ok THEN Ok([r EXCEPT !.vk_descriptor_pool = Obj("descriptor_pool", 0),
                            !.vk_descriptor_pool_ok = TRUE],
                  <<Create(Obj("descriptor_pool", 0))>>)
    ELSE Fatal([r EXCEPT !.vk_descriptor_pool_ok = FALSE], <<>>)

\* vkAllocateDescriptorSets: the sets belong to the pool and go with it.
init_descriptor_sets(r, ok) ==
    IF ok THEN Ok(r, <<>>) ELSE Fatal(r, <<>>)

\* Recording the command buffers: a failed begin or end is fatal.
init_record_commands(r, ok) ==
    IF ok THEN Ok(r, <<>>) ELSE Fatal(r, <<>>)

\* The per-frame sync objects from frame i on. All three create calls of a
\* frame are made; if any failed the loop jumps to fatal_error with
\* vk_semaphores_oks[i] still false. res[i] holds the three results.
RECURSIVE create_sync_objects(_, _, _)
create_sync_objects(r, res, i) ==
    IF i >= MAX_FRAMES_IN_FLIGHT THEN Ok(r, <<>>)
    ELSE
    LET r1 == [r EXCEPT
                 !.vk_semaphores_oks[i] = FALSE,
                 !.vk_image_available_semaphores[i] =
                     IF res[i].sem1 THEN Obj("semaphore_image_available", i) ELSE @,
                 !.vk_render_finished_semaphores[i] =
                     IF res[i].sem2 THEN Obj("semaphore_render_finished", i) ELSE @,
                 !.vk_inflight_fences[i] =
                     IF res[i].fence THEN Obj("fence", i) ELSE @]
        ev == (IF res[i].sem1
               THEN <<Create(Obj("semaphore_image_available", i))>> ELSE <<>>)
              \o (IF res[i].sem2
                  THEN <<Create(Obj("semaphore_render_finished", i))>> ELSE <<>>)
              \o (IF res[i].fence THEN <<Create(Obj("fence", i))>> ELSE <<>>)
    IN IF ~res[i].sem1 \/ ~res[i].sem2 \/ ~res[i].fence
       THEN Fatal(r1, ev)
       ELSE LET rest == create_sync_objects(
                          [r1 EXCEPT !.vk_semaphores_oks[i] = TRUE], res, i + 1)
            IN [rest EXCEPT !.ev = ev \o @]

\* The image-to-fence table is calloc'ed, then the sync objects are made.
init_sync_objects(r, res) ==
    create_sync_objects(
        [r EXCEPT !.vk_images_inflight_fences =
                      ZeroedArray(r.vk_swapchain_images_count)],
        res, 0)

\* ------------------------------------------------------------------------
\* The Vulkan backend: teardown (del_renderer)
\* ------------------------------------------------------------------------

\* The Destroy events of arr[i], arr[i+1], ..., arr[n-1].
RECURSIVE DestroyRange(_, _, _)
DestroyRange(arr, i, n) ==
    IF i >= n THEN <<>>
    ELSE DestroyHandle(arr[i]) \o DestroyRange(arr, i + 1, n)

\* vkDestroyBuffer and vkFreeMemory of the uniform buffers i..n-1.
RECURSIVE DestroyUniforms(_, _, _)
DestroyUniforms(r, i, n) ==
    IF i >= n THEN <<>>
    ELSE DestroyHandle(r.uniform_buffers[i])
         \o DestroyHandle(r.uniform_buffers_memory[i])
         \o DestroyUniforms(r, i + 1, n)

\* The sync objects of the frames i.. whose vk_semaphores_oks is set.
RECURSIVE DestroySync(_, _)
DestroySync(r, i) ==
    IF i >= MAX_FRAMES_IN_FLIGHT THEN <<>>
    ELSE (IF r.vk_semaphores_oks[i]
          THEN <<Destroy(r.vk_render_finished_semaphores[i]),
                 Destroy(r.vk_image_available_semaphores[i]),
                 Destroy(r.vk_inflight_fences[i])>>
          ELSE <<>>)
         \o DestroySync(r, i + 1)

del_device_objects_nowait(r) ==
    DestroySync(r, 0)
    \o (IF r.vk_command_buffer_pool_ok
        THEN <<Destroy(r.vk_command_buffer_pool)>> ELSE <<>>)
    \o (IF ~IsNullPtr(r.vk_swapchain_framebuffers)
        THEN DestroyRange(r.vk_swapchain_framebuffers, 0,
                          r.vk_swapchain_fbs_ok_count)
        ELSE <<>>)
    \o (IF r.vk_graphics_pipeline_ok
        THEN <<Destroy(r.vk_graphics_pipeline)>> ELSE <<>>)
    \o (IF r.vk_pipeline_layout_created_ok
        THEN <<Destroy(r.vk_pipeline_layout)>> ELSE <<>>)
    \o (IF r.vk_render_pass_ok THEN <<Destroy(r.vk_render_pass)>> ELSE <<>>)
    \o (IF r.vk_shaders_loaded_ok
        THEN <<Destroy(r.vk_vert_shader_module),
               Destroy(r.vk_frag_shader_module)>>
        ELSE <<>>)
    \o DestroyHandle(r.vk_descriptor_set_layout)
    \o (IF ~IsNullPtr(r.uniform_buffers)
        THEN DestroyUniforms(r, 0, r.vk_swapchain_images_count) ELSE <<>>)
    \o (IF r.vk_descriptor_pool_ok
        THEN <<Destroy(r.vk_descriptor_pool)>> ELSE <<>>)
    \o (IF ~IsNullPtr(r.vk_swapchain_image_views)
        THEN DestroyRange(r.vk_swapchain_image_views, 0,
                          r.vk_swapchain_images_count)
        ELSE <<>>)
    \o DestroyHandle(r.vk_swapchain)

\* The first part of del_renderer: the wait for the device, then the objects
\* made from the device, in the order the source destroys them.
del_device_objects(r) ==
    (IF r.vk_device # Null THEN <<WaitIdle>> ELSE <<>>)
    \o DestroySync(r, 0)
    \o (IF r.vk_command_buffer_pool_ok
        THEN <<Destroy(r.vk_command_buffer_pool)>> ELSE <<>>)
    \o (IF ~IsNullPtr(r.vk_swapchain_framebuffers)
        THEN DestroyRange(r.vk_swapchain_framebuffers, 0,
                          r.vk_swapchain_fbs_ok_count)
        ELSE <<>>)
    \o (IF r.vk_graphics_pipeline_ok
        THEN <<Destroy(r.vk_graphics_pipeline)>> ELSE <<>>)
    \o (IF r.vk_pipeline_layout_created_ok
        THEN <<Destroy(r.vk_pipeline_layout)>> ELSE <<>>)
    \o (IF r.vk_render_pass_ok THEN <<Destroy(r.vk_render_pass)>> ELSE <<>>)
    \o (IF r.vk_shaders_loaded_ok
        THEN <<Destroy(r.vk_vert_shader_module),
               Destroy(r.vk_frag_shader_module)>>
        ELSE <<>>)
    \o DestroyHandle(r.vk_descriptor_set_layout)
    \o (IF ~IsNullPtr(r.uniform_buffers)
        THEN DestroyUniforms(r, 0, r.vk_swapchain_images_count) ELSE <<>>)
    \o (IF r.vk_descriptor_pool_ok
        THEN <<Destroy(r.vk_descriptor_pool)>> ELSE <<>>)
    \o (IF ~IsNullPtr(r.vk_swapchain_image_views)
        THEN DestroyRange(r.vk_swapchain_image_views, 0,
                          r.vk_swapchain_images_count)
        ELSE <<>>)
    \o DestroyHandle(r.vk_swapchain)

\* The last part of del_renderer: the device, the surface, the instance.
del_device_and_instance(r) ==
    DestroyHandle(r.vk_device)
    \o DestroyHandle(r.vk_present_surface)
    \o DestroyHandle(r.vk_instance)

del_renderer_devicefirst(r) ==
    del_device_and_instance(r) \o del_device_objects(r)

\* del_renderer on a renderer that is not NULL: the Vulkan calls it makes,
\* in the order it makes them.
del_renderer(r) ==
    del_device_objects(r) \o del_device_and_instance(r)

\* ------------------------------------------------------------------------
\* The arena's operations as actions of the owning application
\* ------------------------------------------------------------------------

\* The nodes a caller may name as children: those created so far.
CreatedNodes == 0..(current_node_count - 1)

\* The caller receives the result r of the call named op; a failed assert
\* inside the call aborts the process.
Return(op, left, right, r) ==
    /\ max_node_count' = r.arena.max_node_count
    /\ current_node_count' = r.arena.current_node_count
    /\ node_type_table' = r.arena.node_type_table
    /\ node_info_table' = r.arena.node_info_table
    /\ node_is_nonroot_bitset' = r.arena.node_is_nonroot_bitset
    /\ halted' = IF r.ok THEN "no" ELSE "assert"
    /\ UNCHANGED <<gpu_vars, app_vars, last_acquired_by>>
    /\ calls' = Append(calls, [op |-> op, ok |-> r.ok, node |-> r.node,
                               left |-> left, right |-> right])

CanCall == halted = "no" /\ pc = "ready" /\ Len(calls) < MaxCalls

AddSphere ==
    /\ CanCall
    /\ \E radius \in Radii :
         Return("add_sphere_node", NoNode, NoNode, add_sphere_node(Arena, radius))

AddInfinitePlanarPartition ==
    /\ CanCall
    /\ \E n \in Normals :
         Return("add_infinite_planar_partition_node", NoNode, NoNode,
                add_infinite_planar_partition_node(Arena, n))

AddUnionOf ==
    /\ CanCall
    /\ \E l \in CreatedNodes, r \in CreatedNodes :
         Return("add_union_of_node", l, r,
                add_union_of_node(Arena, Wo_Node_Argument(l), Wo_Node_Argument(r)))

AddIntersectionOf ==
    /\ CanCall
    /\ \E l \in CreatedNodes, r \in CreatedNodes :
         Return("add_intersection_of_node", l, r,
                add_intersection_of_node(Arena, Wo_Node_Argument(l), Wo_Node_Argument(r)))

AddDifferenceOf ==
    /\ CanCall
    /\ \E l \in CreatedNodes, r \in CreatedNodes :
         Return("add_difference_of_node", l, r,
                add_difference_of_node(Arena, Wo_Node_Argument(l), Wo_Node_Argument(r)))

\* ------------------------------------------------------------------------
\* new_renderer, stage by stage
\* ------------------------------------------------------------------------

\* What a write through a NULL Wo_Renderer*, or a read outside an array,
\* does to the process.
UndefinedOutcomes == {"segfault", "corrupt"}

\* The answers of the platform the model draws from.
ImageCounts == 1..MaxImages
QueueFamily == [graphics : BOOLEAN, present : BOOLEAN]
QueueFamilyLists ==
    UNION {[1..n -> QueueFamily] : n \in 0..MaxFamilies}
SyncResults == [Frames -> [sem1 : BOOLEAN, sem2 : BOOLEAN, fence : BOOLEAN]]
\* No framebuffer fails, or one does.
FramebufferFailures(n) == {{}} \cup {{i} : i \in 0..(n - 1)}

\* A surface of one to two images, as every run of the life cycle has it.
DoubleBuffered == [minImageCount |-> 1, maxImageCount |-> 2]

\* What a surface can report: at least one image, and a maximum that is
\* either 0, for no maximum, or not below the minimum.
SurfaceCapabilities ==
    {c \in [minImageCount : 1..MaxMinImages,
            maxImageCount : 0..(MaxMinImages + 1)] :
        c.maxImageCount = 0 \/ c.maxImageCount >= c.minImageCount}

\* The stages of vk_init_renderer in the order of the source.
Stages ==
    <<"init_instance", "init_physical_device", "init_device", "init_surface",
      "init_queue_families", "init_swapchain_support", "init_swapchain",
      "init_swapchain_images", "init_image_views", "init_render_pass",
      "init_descriptor_set_layout", "init_shaders", "init_pipeline_layout",
      "init_graphics_pipeline", "init_framebuffers", "init_command_pool",
      "init_command_buffers", "init_uniform_buffers", "init_descriptor_pool",
      "init_descriptor_sets", "init_record_commands", "init_sync_objects">>

StageIndex(stage) == CHOOSE k \in 1..Len(Stages) : Stages[k] = stage

\* Where control goes after a stage: the next stage, or _success and from
\* there back into new_renderer.
AfterStage(stage) ==
    IF StageIndex(stage) = Len(Stages) THEN "new_renderer_return"
    ELSE Stages[StageIndex(stage) + 1]

\* The fences the stage created start signaled (VK_FENCE_CREATE_SIGNALED_BIT).
FencesCreated_unsignaled(ev) == {}

FencesCreated_firstonly(ev) ==
    {f \in {0} : \E k \in 1..Len(ev) : ev[k] = Create(Obj("fence", f))}

FencesCreated(ev) ==
    {f \in Frames : \E k \in 1..Len(ev) : ev[k] = Create(Obj("fence", f))}

\* A stage ran and left res.
Stage(stage, res) ==
    /\ pc = stage
    /\ halted = "no"
    /\ R' = res.r
    /\ vk_log' = vk_log \o res.ev
    /\ fence_signaled' = [f \in Frames |->
                            fence_signaled[f] \/ f \in FencesCreated(res.ev)]
    /\ pc' = CASE res.out = "ok" -> AfterStage(stage)
               [] res.out = "fatal" -> "fatal_error"
               [] res.out = "abort" -> pc
    /\ failed_at' = IF res.out = "ok" THEN failed_at ELSE stage
    /\ halted' = IF res.out = "abort" THEN "assert" ELSE halted
    /\ UNCHANGED <<arena_vars, calls, app_vars, last_acquired_by, renderer_ptr, image_index, pending,
                   signal_due, frames_drawn, frame_log>>

\* new_renderer up to the first stage of vk_init_renderer: the slab is
\* allocated; vk_init_renderer writes renderer->app through the pointer it
\* is given, NULL or not.
NewRenderer ==
    /\ pc = "start"
    /\ halted = "no"
    /\ \E cap \in {DemoCapacity}, alloc_ok \in BOOLEAN :
         IF alloc_ok
         THEN LET a == allocate_renderer(cap) IN
              /\ max_node_count' = a.max_node_count
              /\ current_node_count' = a.current_node_count
              /\ node_type_table' = a.node_type_table
              /\ node_info_table' = a.node_info_table
              /\ node_is_nonroot_bitset' = a.node_is_nonroot_bitset
              /\ renderer_ptr' = "valid"
              /\ R' = ZeroRenderer
              /\ pc' = Stages[1]
              /\ UNCHANGED <<halted, failed_at>>
         ELSE /\ renderer_ptr' = "NULL"
              /\ failed_at' = "allocate_renderer"
              /\ \E o \in UndefinedOutcomes : halted' = o
              /\ UNCHANGED <<arena_vars, R, pc>>
    /\ UNCHANGED <<calls, app_vars, last_acquired_by, vk_log, image_index, fence_signaled, pending,
                   signal_due, frames_drawn, frame_log>>

InitInstance ==
    /\ pc = "init_instance"
    /\ \E ok \in BOOLEAN :
         Stage("init_instance", init_instance(R, FALSE, <<>>, ok))

InitPhysicalDevice ==
    /\ pc = "init_physical_device"
    /\ \E count \in 0..1 :
         Stage("init_physical_device", init_physical_device(R, count))

InitDevice ==
    /\ pc = "init_device"
    /\ \E ext_found \in BOOLEAN, ok \in BOOLEAN :
         Stage("init_device", init_device(R, ext_found, ok))

InitSurface ==
    /\ pc = "init_surface"
    /\ \E ok \in BOOLEAN : Stage("init_surface", init_surface(R, ok))

InitQueueFamilies ==
    /\ pc = "init_queue_families"
    /\ \E families \in QueueFamilyLists :
         Stage("init_queue_families", init_queue_families(R, families))

InitSwapchainSupport ==
    /\ pc = "init_swapchain_support"
    /\ \E fc \in 0..1, pmc \in 0..1 :
         Stage("init_swapchain_support",
               init_swapchain_support(R, DoubleBuffered, fc, pmc))

InitSwapchain ==
    /\ pc = "init_swapchain"
    /\ \E ok \in BOOLEAN : Stage("init_swapchain", init_swapchain(R, ok))

InitSwapchainImages ==
    /\ pc = "init_swapchain_images"
    /\ \E n \in ImageCounts, ok \in BOOLEAN :
         Stage("init_swapchain_images", init_swapchain_images(R, n, ok))

InitImageViews ==
    /\ pc = "init_image_views"
    /\ \E fail_at \in 0..R.vk_swapchain_images_count :
         Stage("init_image_views", init_image_views(R, fail_at))

InitRenderPass ==
    /\ pc = "init_render_pass"
    /\ \E ok \in BOOLEAN : Stage("init_render_pass", init_render_pass(R, ok))

InitDescriptorSetLayout ==
    /\ pc = "init_descriptor_set_layout"
    /\ \E ok \in BOOLEAN :
         Stage("init_descriptor_set_layout", init_descriptor_set_layout(R, ok))

InitShaders ==
    /\ pc = "init_shaders"
    /\ \E files_open \in BOOLEAN, vert_ok \in BOOLEAN, frag_ok \in BOOLEAN :
         Stage("init_shaders", init_shaders(R, files_open, vert_ok, frag_ok))

InitPipelineLayout ==
    /\ pc = "init_pipeline_layout"
    /\ \E ok \in BOOLEAN : Stage("init_pipeline_layout", init_pipeline_layout(R, ok))

InitGraphicsPipeline ==
    /\ pc = "init_graphics_pipeline"
    /\ \E ok \in BOOLEAN :
         Stage("init_graphics_pipeline", init_graphics_pipeline(R, ok))

InitFramebuffers ==
    /\ pc = "init_framebuffers"
    /\ \E fails \in FramebufferFailures(R.vk_swapchain_images_count) :
         Stage("init_framebuffers", init_framebuffers(R, fails))

InitCommandPool ==
    /\ pc = "init_command_pool"
    /\ \E ok \in BOOLEAN : Stage("init_command_pool", init_command_pool(R, ok))

InitCommandBuffers ==
    /\ pc = "init_command_buffers"
    /\ \E ok \in BOOLEAN : Stage("init_command_buffers", init_command_buffers(R, ok))

InitUniformBuffers ==
    /\ pc = "init_uniform_buffers"
    /\ \E fail_at \in 0..R.vk_swapchain_images_count :
         Stage("init_uniform_buffers", init_uniform_buffers(R, fail_at))

InitDescriptorPool ==
    /\ pc = "init_descriptor_pool"
    /\ \E ok \in BOOLEAN : Stage("init_descriptor_pool", init_descriptor_pool(R, ok))

InitDescriptorSets ==
    /\ pc = "init_descriptor_sets"
    /\ \E ok \in BOOLEAN : Stage("init_descriptor_sets", init_descriptor_sets(R, ok))

InitRecordCommands ==
    /\ pc = "init_record_commands"
    /\ \E ok \in BOOLEAN : Stage("init_record_commands", init_record_commands(R, ok))

InitSyncObjects ==
    /\ pc = "init_sync_objects"
    /\ \E res \in SyncResults : Stage("init_sync_objects", init_sync_objects(R, res))

\* The fatal_error label of vk_init_renderer: del_renderer(renderer), then
\* NULL goes back to new_renderer.
FatalError ==
    /\ pc = "fatal_error"
    /\ halted = "no"
    /\ vk_log' = vk_log \o del_renderer(R)
    /\ renderer_ptr' = "NULL"
    /\ pc' = "new_renderer_return"
    /\ UNCHANGED <<arena_vars, halted, calls, app_vars, last_acquired_by, R, failed_at, image_index,
                   fence_signaled, pending, signal_due, frames_drawn, frame_log>>

\* The end of new_renderer: renderer->current_frame_index = 0 through
\* whatever vk_init_renderer returned, then return renderer.
NewRendererReturn ==
    /\ pc = "new_renderer_return"
    /\ halted = "no"
    /\ IF renderer_ptr = "NULL"
       THEN /\ \E o \in UndefinedOutcomes : halted' = o
            /\ UNCHANGED <<R, pc>>
       ELSE /\ R' = [R EXCEPT !.current_frame_index = 0]
            /\ pc' = "ready"
            /\ UNCHANGED halted
    /\ UNCHANGED <<arena_vars, calls, app_vars, last_acquired_by, renderer_ptr, vk_log, failed_at,
                   image_index, fence_signaled, pending, signal_due,
                   frames_drawn, frame_log>>

\* ------------------------------------------------------------------------
\* draw_frame_with_renderer, step by step, and the device beside it
\* ------------------------------------------------------------------------

NoImage == -1

\* The frame slot a fence handle of vk_inflight_fences belongs to.
SlotOf(fence) == fence[2]

\* The graphics queue and the present queue are one VkQueue when their
\* family indices agree (both are queue 0 of their family).
SameQueue(r) ==
    r.vk_graphics_queue_family_index = r.vk_present_queue_family_index

advance_frame_index_nowrap(cfi) == cfi + 1

\* (current_frame_index + 1) % MAX_FRAMES_IN_FLIGHT
advance_frame_index(cfi) == (cfi + 1) % MAX_FRAMES_IN_FLIGHT

\* One step of draw_frame_with_renderer: the call made, the frame slot and
\* the image it is made for, and whether the driver reported success.
Step(name, slot, image, ok) ==
    [step |-> name, slot |-> slot, image |-> image, ok |-> ok]

draw_submit_steps_resetlate(f, i, map_ok, submit_ok, present_ok) ==
    <<Step("set_image_fence", f, i, TRUE), Step("map_memory", f, i, map_ok)>>
    \o (IF ~map_ok THEN <<>>
        ELSE <<Step("write_uniform_buffer", f, i, TRUE),
               Step("queue_submit", f, i, submit_ok),
               Step("reset_fence", f, i, TRUE)>>
             \o (IF ~submit_ok THEN <<>>
                 ELSE <<Step("queue_present", f, i, present_ok)>>))

draw_submit_steps_rerecord(f, i, map_ok, submit_ok, present_ok) ==
    <<Step("set_image_fence", f, i, TRUE), Step("map_memory", f, i, map_ok)>>
    \o (IF ~map_ok THEN <<>>
        ELSE <<Step("write_uniform_buffer", f, i, TRUE),
               Step("begin_command_buffer", f, i, TRUE),
               Step("end_command_buffer", f, i, TRUE),
               Step("reset_fence", f, i, TRUE),
               Step("queue_submit", f, i, submit_ok)>>
             \o (IF ~submit_ok THEN <<>>
                 ELSE <<Step("queue_present", f, i, present_ok)>>))

\* The calls of draw_frame_with_renderer between the image-fence wait and
\* the queue-idle wait, in source order; a failed assert ends them.
draw_submit_steps(f, i, map_ok, submit_ok, present_ok) ==
    <<Step("set_image_fence", f, i, TRUE), Step("map_memory", f, i, map_ok)>>
    \o (IF ~map_ok THEN <<>>
        ELSE <<Step("write_uniform_buffer", f, i, TRUE),
               Step("reset_fence", f, i, TRUE),
               Step("queue_submit", f, i, submit_ok)>>
             \o (IF ~submit_ok THEN <<>>
                 ELSE <<Step("queue_present", f, i, present_ok)>>))

Drawing == pc \in {"draw_wait_frame_fence", "draw_acquire",
                   "draw_wait_image_fence", "draw_submit", "draw_wait_idle"}

\* The application calls draw_frame on the renderer it holds.
DrawFrameBegin ==
    /\ pc = "ready"
    /\ halted = "no"
    /\ frames_drawn < MaxFrames
    /\ pc' = "draw_wait_frame_fence"
    /\ UNCHANGED <<arena_vars, halted, calls, app_vars, last_acquired_by, renderer_ptr, R, vk_log,
                   failed_at, image_index, fence_signaled, pending,
                   signal_due, frames_drawn>>
    /\ frame_log' = <<>>

frame_fence_wait_returns_atonce(r, signaled) == TRUE

\* vkWaitForFences(vk_inflight_fences[current_frame_index], UINT64_MAX)
\* returns when that fence is signaled.
frame_fence_wait_returns(r, signaled) ==
    signaled[SlotOf(r.vk_inflight_fences[r.current_frame_index])]

\* vkWaitForFences on the fence of the current frame slot returns.
DrawWaitFrameFence ==
    /\ pc = "draw_wait_frame_fence"
    /\ halted = "no"
    /\ frame_fence_wait_returns(R, fence_signaled)
    /\ pc' = "draw_acquire"
    /\ UNCHANGED <<arena_vars, halted, calls, app_vars, last_acquired_by, renderer_ptr, R, vk_log,
                   failed_at, image_index, fence_signaled, pending,
                   signal_due, frames_drawn>>
    /\ frame_log' = Append(frame_log,
          Step("wait_frame_fence", R.current_frame_index, NoImage, TRUE))

\* vkAcquireNextImageKHR, result ignored: on failure image_index stays -1
\* and indexes vk_images_inflight_fences outside its bounds.
DrawAcquire ==
    /\ pc = "draw_acquire"
    /\ halted = "no"
    /\ \E ok \in BOOLEAN, i \in 0..(R.vk_swapchain_images_count - 1) :
         IF ok
         THEN /\ image_index' = i
              /\ frame_log' = Append(frame_log,
                    Step("acquire_next_image", R.current_frame_index, i, TRUE))
              /\ last_acquired_by' =
                    [j \in DOMAIN last_acquired_by \cup {i} |->
                        IF j = i THEN R.current_frame_index
                        ELSE last_acquired_by[j]]
              /\ pc' = "draw_wait_image_fence"
              /\ UNCHANGED halted
         ELSE /\ image_index' = NoImage
              /\ frame_log' = Append(frame_log,
                    Step("acquire_next_image", R.current_frame_index, NoImage,
                         FALSE))
              /\ \E o \in UndefinedOutcomes : halted' = o
              /\ UNCHANGED <<pc, last_acquired_by>>
    /\ UNCHANGED <<arena_vars, calls, app_vars, renderer_ptr, R, vk_log, failed_at,
                   fence_signaled, pending, signal_due, frames_drawn>>

image_fence_to_wait_none(r, i) == Null

\* The fence draw_frame_with_renderer waits on for image i: the one on
\* record for it, VK_NULL_HANDLE (no wait) if there is none.
image_fence_to_wait(r, i) == r.vk_images_inflight_fences[i]

\* If the image has a fence on record, vkWaitForFences on it returns.
DrawWaitImageFence ==
    /\ pc = "draw_wait_image_fence"
    /\ halted = "no"
    /\ LET f == image_fence_to_wait(R, image_index) IN
         f # Null => fence_signaled[SlotOf(f)]
    /\ pc' = "draw_submit"
    /\ UNCHANGED <<arena_vars, halted, calls, app_vars, last_acquired_by, renderer_ptr, R, vk_log,
                   failed_at, image_index, fence_signaled, pending,
                   signal_due, frames_drawn>>
    /\ frame_log' =
          IF R.vk_images_inflight_fences[image_index] # Null
          THEN Append(frame_log,
                 Step("wait_image_fence",
                      SlotOf(R.vk_images_inflight_fences[image_index]),
                      image_index, TRUE))
          ELSE frame_log

set_image_fence_firstonly(r, i) ==
    IF r.vk_images_inflight_fences[i] # Null THEN r
    ELSE [r EXCEPT !.vk_images_inflight_fences[i] =
                       r.vk_inflight_fences[r.current_frame_index]]

\* vk_images_inflight_fences[image_index] becomes the fence of the current
\* frame slot.
set_image_fence(r, i) ==
    [r EXCEPT !.vk_images_inflight_fences[i] =
                  r.vk_inflight_fences[r.current_frame_index]]

\* The image is recorded under the slot's fence, the uniform buffer of the
\* image is written, the fence is reset, the command buffer is submitted
\* and the image is queued for presentation.
DrawSubmit ==
    /\ pc = "draw_submit"
    /\ halted = "no"
    /\ LET cfi == R.current_frame_index IN
       \E map_ok \in BOOLEAN, submit_ok \in BOOLEAN, present_ok \in BOOLEAN :
         /\ R' = set_image_fence(R, image_index)
         /\ frame_log' = frame_log \o
               draw_submit_steps(cfi, image_index, map_ok, submit_ok, present_ok)
         /\ IF ~map_ok
            THEN /\ halted' = "assert"
                 /\ UNCHANGED <<fence_signaled, pending, pc>>
            ELSE /\ fence_signaled' = [fence_signaled EXCEPT ![cfi] = FALSE]
                 /\ IF ~submit_ok
                    THEN /\ halted' = "assert"
                         /\ UNCHANGED <<pending, pc>>
                    ELSE /\ pending' = pending \cup
                                {[slot |-> cfi, image |-> image_index,
                                  presented |-> present_ok]}
                         /\ pc' = "draw_wait_idle"
                         /\ UNCHANGED halted
    /\ UNCHANGED <<arena_vars, calls, app_vars, last_acquired_by, renderer_ptr, vk_log, failed_at,
                   image_index, signal_due, frames_drawn>>

\* The submissions vkQueueWaitIdle(vk_present_queue) waits for: all of them
\* when the present queue is the graphics queue, else those a queued
\* present waits on.
HoldsPresentQueue(s) == SameQueue(R) \/ s.presented

\* vkQueueWaitIdle returns, and the frame slot advances.
DrawWaitIdle ==
    /\ pc = "draw_wait_idle"
    /\ halted = "no"
    /\ \A s \in pending : ~HoldsPresentQueue(s)
    /\ SameQueue(R) => signal_due = {}
    /\ R' = [R EXCEPT !.current_frame_index = advance_frame_index(@)]
    /\ frames_drawn' = frames_drawn + 1
    /\ frame_log' = frame_log \o
          <<Step("queue_wait_idle", R.current_frame_index, image_index, TRUE),
            Step("advance_frame_index", R.current_frame_index, image_index,
                 TRUE)>>
    /\ pc' = "ready"
    /\ UNCHANGED <<arena_vars, halted, calls, app_vars, last_acquired_by, renderer_ptr, vk_log,
                   failed_at, image_index, fence_signaled, pending,
                   signal_due>>

\* The device finishes the commands of a submission.
GpuExecute ==
    /\ \E s \in pending :
         /\ pending' = pending \ {s}
         /\ signal_due' = signal_due \cup {s.slot}
    /\ UNCHANGED <<arena_vars, halted, calls, app_vars, last_acquired_by, pc, renderer_ptr, R, vk_log,
                   failed_at, image_index, fence_signaled, frames_drawn, frame_log>>

\* The device signals the fence of a finished submission.
GpuSignalFence ==
    /\ \E f \in signal_due :
         /\ signal_due' = signal_due \ {f}
         /\ fence_signaled' = [fence_signaled EXCEPT ![f] = TRUE]
    /\ UNCHANGED <<arena_vars, halted, calls, app_vars, last_acquired_by, pc, renderer_ptr, R, vk_log,
                   failed_at, image_index, pending, frames_drawn, frame_log>>

\* The device has finished every submission and signaled its fence.
DeviceIdle == pending = {} /\ signal_due = {}

\* The calls ev contain a vkDeviceWaitIdle, which blocks until DeviceIdle.
WaitsForDevice(ev) == \E k \in 1..Len(ev) : ev[k] = WaitIdle

\* The application destroys the renderer it holds: vkDeviceWaitIdle
\* returns once the device has nothing left to do.
DelRenderer ==
    /\ pc = "ready"
    /\ halted = "no"
    /\ WaitsForDevice(del_renderer(R)) => DeviceIdle
    /\ vk_log' = vk_log \o del_renderer(R)
    /\ renderer_ptr' = "freed"
    /\ pc' = "deleted"
    /\ UNCHANGED <<arena_vars, halted, calls, app_vars, last_acquired_by, R, failed_at, image_index,
                   fence_signaled, pending, signal_due, frames_drawn, frame_log>>

\* ------------------------------------------------------------------------
\* Specifications
\* ------------------------------------------------------------------------

\* A stage of vk_init_renderer when every call it makes succeeds and the
\* swapchain has n images.
stage_succeeds(stage, r, n) ==
    CASE stage = "init_instance" -> init_instance(r, FALSE, <<>>, TRUE)
      [] stage = "init_physical_device" -> init_physical_device(r, 1)
      [] stage = "init_device" -> init_device(r, TRUE, TRUE)
      [] stage = "init_surface" -> init_surface(r, TRUE)
      [] stage = "init_queue_families" ->
            init_queue_families(r, <<[graphics |-> TRUE, present |-> TRUE]>>)
      [] stage = "init_swapchain_support" -> init_swapchain_support(
                 r, DoubleBuffered, 1, 1)
      [] stage = "init_swapchain" -> init_swapchain(r, TRUE)
      [] stage = "init_swapchain_images" -> init_swapchain_images(r, n, TRUE)
      [] stage = "init_image_views" -> init_image_views(r, n)
      [] stage = "init_render_pass" -> init_render_pass(r, TRUE)
      [] stage = "init_descriptor_set_layout" ->
            init_descriptor_set_layout(r, TRUE)
      [] stage = "init_shaders" -> init_shaders(r, TRUE, TRUE, TRUE)
      [] stage = "init_pipeline_layout" -> init_pipeline_layout(r, TRUE)
      [] stage = "init_graphics_pipeline" -> init_graphics_pipeline(r, TRUE)
      [] stage = "init_framebuffers" -> init_framebuffers(r, {})
      [] stage = "init_command_pool" -> init_command_pool(r, TRUE)
      [] stage = "init_command_buffers" -> init_command_buffers(r, TRUE)
      [] stage = "init_uniform_buffers" -> init_uniform_buffers(r, n)
      [] stage = "init_descriptor_pool" -> init_descriptor_pool(r, TRUE)
      [] stage = "init_descriptor_sets" -> init_descriptor_sets(r, TRUE)
      [] stage = "init_record_commands" -> init_record_commands(r, TRUE)
      [] stage = "init_sync_objects" ->
            init_sync_objects(r, [f \in Frames |->
                [sem1 |-> TRUE, sem2 |-> TRUE, fence |-> TRUE]])

\* vk_init_renderer from stage k on, all calls succeeding: the renderer and
\* the objects created.
RECURSIVE vk_init_renderer(_, _, _, _)
vk_init_renderer(k, r, ev, n) ==
    IF k > Len(Stages) THEN [r |-> r, ev |-> ev]
    ELSE LET res == stage_succeeds(Stages[k], r, n) IN
         vk_init_renderer(k + 1, res.r, ev \o res.ev, n)

\* The arena right after new_renderer returned a renderer, for each
\* capacity.
InitArena ==
    /\ \E cap \in Capacities :
         LET a == allocate_renderer(cap) IN
         /\ max_node_count = a.max_node_count
         /\ current_node_count = a.current_node_count
         /\ node_type_table = a.node_type_table
         /\ node_info_table = a.node_info_table
         /\ node_is_nonroot_bitset = a.node_is_nonroot_bitset
    /\ halted = "no"
    /\ calls = <<>>
    /\ pc = "ready"
    /\ renderer_ptr = "valid"
    /\ R = vk_init_renderer(1, ZeroRenderer, <<>>, 1).r
    /\ vk_log = vk_init_renderer(1, ZeroRenderer, <<>>, 1).ev
    /\ failed_at = "none"
    /\ image_index = NoImage
    /\ fence_signaled = [f \in Frames |-> TRUE]
    /\ pending = {}
    /\ signal_due = {}
    /\ frames_drawn = 0
    /\ frame_log = <<>>
    /\ app = NoApp
    /\ the_app_in_use = FALSE
    /\ app_log = <<>>
    /\ last_acquired_by = <<>>

NextArena ==
    \/ AddSphere
    \/ AddInfinitePlanarPartition
    \/ AddUnionOf
    \/ AddIntersectionOf
    \/ AddDifferenceOf

SpecArena == InitArena /\ [][NextArena]_vars

\* The formats and present modes a surface can report.
SurfaceFormats ==
    [format : {"VK_FORMAT_B8G8R8A8_SRGB", "VK_FORMAT_B8G8R8A8_UNORM"},
     colorSpace : {"VK_COLOR_SPACE_SRGB_NONLINEAR_KHR",
                   "VK_COLOR_SPACE_EXTENDED_SRGB_LINEAR_EXT"}]
PresentModes ==
    {"VK_PRESENT_MODE_IMMEDIATE_KHR", "VK_PRESENT_MODE_MAILBOX_KHR",
     "VK_PRESENT_MODE_FIFO_KHR"}
FormatLists == UNION {[1..n -> SurfaceFormats] : n \in 1..MaxFormats}
ModeLists == UNION {[1..n -> PresentModes] : n \in 1..MaxModes}

\* vk_init_renderer after the surface was found adequate: at least one
\* format and one present mode are stored.
InitSurfaceChoice ==
    /\ max_node_count = 0
    /\ current_node_count = 0
    /\ node_type_table = <<>>
    /\ node_info_table = <<>>
    /\ node_is_nonroot_bitset = <<>>
    /\ halted = "no"
    /\ calls = <<>>
    /\ pc = "choose_present_format"
    /\ renderer_ptr = "valid"
    /\ \E caps \in SurfaceCapabilities,
          formats \in FormatLists, modes \in ModeLists :
         R = [ZeroRenderer EXCEPT
                 !.vk_present_surface_capabilities = caps,
                 !.vk_available_format_count = Len(formats),
                 !.vk_available_formats = formats,
                 !.vk_available_present_mode_count = Len(modes),
                 !.vk_available_present_modes = modes]
    /\ vk_log = <<>>
    /\ failed_at = "none"
    /\ image_index = NoImage
    /\ fence_signaled = [f \in Frames |-> FALSE]
    /\ pending = {}
    /\ signal_due = {}
    /\ frames_drawn = 0
    /\ frame_log = <<>>
    /\ app = NoApp
    /\ the_app_in_use = FALSE
    /\ app_log = <<>>
    /\ last_acquired_by = <<>>

ChoosePresentFormat ==
    /\ pc = "choose_present_format"
    /\ R' = choose_present_format(R)
    /\ pc' = "choose_present_mode"
    /\ UNCHANGED <<arena_vars, halted, calls, app_vars, last_acquired_by, renderer_ptr, vk_log, failed_at,
                   image_index, fence_signaled, pending, signal_due,
                   frames_drawn, frame_log>>

ChoosePresentMode ==
    /\ pc = "choose_present_mode"
    /\ R' = choose_present_mode(R)
    /\ pc' = "init_swapchain"
    /\ UNCHANGED <<arena_vars, halted, calls, app_vars, last_acquired_by, renderer_ptr, vk_log, failed_at,
                   image_index, fence_signaled, pending, signal_due,
                   frames_drawn, frame_log>>

\* The instance layers a platform can report.
LayerNames ==
    {"VK_LAYER_KHRONOS_validation", "VK_LAYER_LUNARG_api_dump",
     "VK_LAYER_LUNARG_monitor"}
LayerLists == UNION {[1..n -> LayerNames] : n \in 0..MaxLayers}

\* The instance stage in either build, WO_DEBUG set or not, on any
\* platform.
InitInstanceAnyBuild ==
    /\ pc = "init_instance"
    /\ \E wo_debug \in BOOLEAN, available \in LayerLists, ok \in BOOLEAN :
         Stage("init_instance", init_instance(R, wo_debug, available, ok))

NextInstance ==
    \/ NewRenderer
    \/ InitInstanceAnyBuild
    \/ InitPhysicalDevice
    \/ InitDevice

NextSurfaceChoice ==
    \/ ChoosePresentFormat
    \/ ChoosePresentMode
    \/ InitSwapchain

SpecSurfaceChoice == InitSurfaceChoice /\ [][NextSurfaceChoice]_vars

\* ------------------------------------------------------------------------
\* app_run and the callbacks of the demo
\* ------------------------------------------------------------------------

\* How often an entry occurs in the history of app_run.
Count(entry) == Cardinality({k \in 1..Len(app_log) : app_log[k] = entry})

\* What app_run does not touch.
AppFrame ==
    UNCHANGED <<arena_vars, calls, renderer_ptr, R, vk_log, failed_at,
                image_index, fence_signaled, pending, signal_due,
                frames_drawn, frame_log, last_acquired_by, the_app_in_use>>

\* glfwInit and glfwCreateWindow: either failure returns false.
AppRunSetup ==
    /\ pc = "app_run"
    /\ halted = "no"
    /\ \E glfw_init_status \in BOOLEAN, window_ok \in BOOLEAN :
         pc' = IF glfw_init_status /\ window_ok THEN "extension_init"
               ELSE "app_run_returned_false"
    /\ UNCHANGED <<halted, app_vars>>
    /\ AppFrame

\* test1_init_cb: wo_renderer_new, and wo_app_swap_scene when it returned a
\* renderer.
test1_init_cb(a, new_ok) ==
    [app |-> [a EXCEPT !.renderer = IF new_ok THEN "valid" ELSE @],
     calls |-> <<"extension_init_cb", "wo_renderer_new">>]

\* The init callback, when there is one; a callback that returns false ends
\* app_run. The demo's callback returns true; init_ok = FALSE is a callback
\* that does the same and reports failure.
ExtensionInit ==
    /\ pc = "extension_init"
    /\ halted = "no"
    /\ IF app.extension_init_cb
       THEN \E new_ok \in BOOLEAN, init_ok \in BOOLEAN :
              LET res == test1_init_cb(app, new_ok) IN
              /\ app' = res.app
              /\ app_log' = app_log \o res.calls
              /\ pc' = IF init_ok THEN "loop_test"
                       ELSE "app_run_returned_false"
       ELSE /\ pc' = "loop_test"
            /\ UNCHANGED app_vars
    /\ UNCHANGED halted
    /\ AppFrame

\* The test of the display loop: the window is to close, or an iteration
\* starts after time_difference update periods.
LoopTest ==
    /\ pc = "loop_test"
    /\ halted = "no"
    /\ \E should_close \in BOOLEAN :
         IF should_close
         THEN /\ pc' = "extension_de_init"
              /\ UNCHANGED app_vars
         ELSE /\ Count("loop_iteration") < MaxFrames
              /\ \E time_difference \in 0..MaxUpdates :
                   app' = [app EXCEPT !.total_running_behind_by =
                               MIN(@ + time_difference, MaxUpdates)]
              /\ app_log' = Append(app_log, "loop_iteration")
              /\ pc' = "updating"
    /\ UNCHANGED halted
    /\ AppFrame

\* The inner loop runs while there is an update callback and the
\* application is behind by an update period or more.
update_due(a) == a.extension_update_cb /\ a.total_running_behind_by >= 1

\* What one pass of the inner loop calls.
update_calls_withdraw == <<"extension_update_cb", "wo_renderer_draw_frame">>

update_calls == <<"extension_update_cb">>

Update ==
    /\ pc = "updating"
    /\ halted = "no"
    /\ update_due(app)
    /\ app' = [app EXCEPT !.total_running_behind_by = @ - 1]
    /\ app_log' = app_log \o update_calls
    /\ UNCHANGED <<pc, halted>>
    /\ AppFrame

\* wo_renderer_draw_frame(app->renderer), then glfwPollEvents. The call
\* reads through the pointer, NULL or not, and a failed assert inside it
\* ends the process.
DrawFrame ==
    /\ pc = "updating"
    /\ halted = "no"
    /\ ~update_due(app)
    /\ app_log' = Append(app_log, "wo_renderer_draw_frame")
    /\ IF app.renderer = "NULL"
       THEN \E o \in UndefinedOutcomes : halted' = o
       ELSE \E draw_ok \in BOOLEAN :
              halted' = IF draw_ok THEN "no" ELSE "assert"
    /\ pc' = "loop_test"
    /\ UNCHANGED app
    /\ AppFrame

\* The de-init callback, when there is one.
extension_de_init_twice(a) ==
    IF a.extension_de_init_cb
    THEN <<"extension_de_init_cb", "extension_de_init_cb">> ELSE <<>>

extension_de_init(a) ==
    IF a.extension_de_init_cb THEN <<"extension_de_init_cb">> ELSE <<>>

\* test1_de_init_cb prints and returns; glfwTerminate; app_run returns true.
ExtensionDeInit ==
    /\ pc = "extension_de_init"
    /\ halted = "no"
    /\ app_log' = app_log \o extension_de_init(app)
    /\ pc' = "app_run_returned_true"
    /\ UNCHANGED <<halted, app>>
    /\ AppFrame

\* app_new with any of the three callbacks given or NULL.
InitApp ==
    /\ max_node_count = 0
    /\ current_node_count = 0
    /\ node_type_table = <<>>
    /\ node_info_table = <<>>
    /\ node_is_nonroot_bitset = <<>>
    /\ halted = "no"
    /\ calls = <<>>
    /\ pc = "app_run"
    /\ renderer_ptr = "none"
    /\ R = ZeroRenderer
    /\ vk_log = <<>>
    /\ failed_at = "none"
    /\ image_index = NoImage
    /\ fence_signaled = [f \in Frames |-> FALSE]
    /\ pending = {}
    /\ signal_due = {}
    /\ frames_drawn = 0
    /\ frame_log = <<>>
    /\ \E init_cb \in BOOLEAN, update_cb \in BOOLEAN, de_init_cb \in BOOLEAN :
         app = [NoApp EXCEPT !.extension_init_cb = init_cb,
                             !.extension_update_cb = update_cb,
                             !.extension_de_init_cb = de_init_cb]
    /\ the_app_in_use = TRUE
    /\ app_log = <<>>
    /\ last_acquired_by = <<>>

NextApp ==
    \/ AppRunSetup
    \/ ExtensionInit
    \/ LoopTest
    \/ Update
    \/ DrawFrame
    \/ ExtensionDeInit

SpecApp == InitApp /\ [][NextApp]_vars

\* ------------------------------------------------------------------------
\* The arena in a build with NDEBUG
\* ------------------------------------------------------------------------

\* With NDEBUG, assert(allocate_node(renderer, &node) && "...") expands to
\* nothing: allocate_node is not called, current_node_count stays, and the
\* local node is read without ever having been written. stale is the value
\* it happens to hold; a value outside the tables makes the two stores
\* write outside the slab.
StaleNodes == 0..MaxCapacity

InSlab(a, node) == node \in 0..(a.max_node_count - 1)

add_sphere_node_ndebug(a, radius, stale) ==
    IF ~InSlab(a, stale) THEN [ok |-> FALSE, node |-> stale, arena |-> a]
    ELSE [ok |-> TRUE,
          node |-> stale,
          arena |-> [a EXCEPT
                       !.node_type_table[stale] = "WO_LEAF_SPHERE",
                       !.node_info_table[stale].radius = radius]]

add_infinite_planar_partition_node_ndebug(a, outward_facing_normal, stale) ==
    IF ~InSlab(a, stale) THEN [ok |-> FALSE, node |-> stale, arena |-> a]
    ELSE [ok |-> TRUE,
          node |-> stale,
          arena |-> [a EXCEPT
                       !.node_type_table[stale] =
                           "WO_LEAF_INFINITE_PLANAR_PARTITION",
                       !.node_info_table[stale].normal = outward_facing_normal]]

add_binop_of_node_ndebug(a, type, left, right, stale) ==
    IF ~InSlab(a, stale) THEN [ok |-> FALSE, node |-> stale, arena |-> a]
    ELSE [ok |-> TRUE,
          node |-> stale,
          arena |-> set_nonroot_node(
                      set_nonroot_node(
                        [a EXCEPT
                           !.node_type_table[stale] = type,
                           !.node_info_table[stale].left = left,
                           !.node_info_table[stale].right = right],
                        left.node),
                      right.node)]

\* The caller receives what the call returns; stores outside the slab
\* leave the process in an undefined state.
ReturnNDebug(op, left, right, r) ==
    /\ max_node_count' = r.arena.max_node_count
    /\ current_node_count' = r.arena.current_node_count
    /\ node_type_table' = r.arena.node_type_table
    /\ node_info_table' = r.arena.node_info_table
    /\ node_is_nonroot_bitset' = r.arena.node_is_nonroot_bitset
    /\ IF r.ok THEN halted' = "no"
       ELSE \E o \in UndefinedOutcomes : halted' = o
    /\ UNCHANGED <<gpu_vars, app_vars, last_acquired_by>>
    /\ calls' = Append(calls, [op |-> op, ok |-> r.ok, node |-> r.node,
                               left |-> left, right |-> right])

CanCallNDebug == halted = "no" /\ pc = "ready" /\ Len(calls) < MaxStaleCalls

\* The nodes the client holds: those earlier calls returned.
ReturnedNodes == {calls[k].node : k \in {j \in 1..Len(calls) : calls[j].ok}}

AddSphereNDebug ==
    /\ CanCallNDebug
    /\ \E radius \in Radii, stale \in StaleNodes :
         ReturnNDebug("add_sphere_node", NoNode, NoNode,
                      add_sphere_node_ndebug(Arena, radius, stale))

AddInfinitePlanarPartitionNDebug ==
    /\ CanCallNDebug
    /\ \E n \in Normals, stale \in StaleNodes :
         ReturnNDebug("add_infinite_planar_partition_node", NoNode, NoNode,
                      add_infinite_planar_partition_node_ndebug(Arena, n, stale))

AddUnionOfNDebug ==
    /\ CanCallNDebug
    /\ \E l \in ReturnedNodes, r \in ReturnedNodes, stale \in StaleNodes :
         ReturnNDebug("add_union_of_node", l, r,
                      add_binop_of_node_ndebug(Arena, "WO_NODE_BINOP_UNION_OF",
                          Wo_Node_Argument(l), Wo_Node_Argument(r), stale))

AddIntersectionOfNDebug ==
    /\ CanCallNDebug
    /\ \E l \in ReturnedNodes, r \in ReturnedNodes, stale \in StaleNodes :
         ReturnNDebug("add_intersection_of_node", l, r,
                      add_binop_of_node_ndebug(Arena,
                          "WO_NODE_BINOP_INTERSECTION_OF",
                          Wo_Node_Argument(l), Wo_Node_Argument(r), stale))

AddDifferenceOfNDebug ==
    /\ CanCallNDebug
    /\ \E l \in ReturnedNodes, r \in ReturnedNodes, stale \in StaleNodes :
         ReturnNDebug("add_difference_of_node", l, r,
                      add_binop_of_node_ndebug(Arena,
                          "WO_NODE_BINOP_DIFFERENCE_OF",
                          Wo_Node_Argument(l), Wo_Node_Argument(r), stale))

NextArenaNDebug ==
    \/ AddSphereNDebug
    \/ AddInfinitePlanarPartitionNDebug
    \/ AddUnionOfNDebug
    \/ AddIntersectionOfNDebug
    \/ AddDifferenceOfNDebug

SpecArenaNDebug == InitArena /\ [][NextArenaNDebug]_vars

\* ------------------------------------------------------------------------
\* draw_frame after draw_frame on a renderer that was built
\* ------------------------------------------------------------------------

\* The two ways the queues can relate: one family serves both graphics and
\* presentation, or each has a family of its own.
SharedOrSplitFamilies ==
    {<<[graphics |-> TRUE, present |-> TRUE]>>,
     <<[graphics |-> TRUE, present |-> FALSE],
       [graphics |-> FALSE, present |-> TRUE]>>}

\* What vk_init_renderer leaves when every stage succeeds, for a swapchain
\* of each number of images.
BuiltRenderers ==
    {vk_init_renderer(1, ZeroRenderer, <<>>, n) : n \in ImageCounts}

\* new_renderer returned a renderer: every stage succeeded, for a swapchain
\* of any number of images and either relation of the queues.
InitFrames ==
    /\ max_node_count = DemoCapacity
    /\ current_node_count = 0
    /\ node_type_table = allocate_renderer(DemoCapacity).node_type_table
    /\ node_info_table = allocate_renderer(DemoCapacity).node_info_table
    /\ node_is_nonroot_bitset =
          allocate_renderer(DemoCapacity).node_is_nonroot_bitset
    /\ halted = "no"
    /\ calls = <<>>
    /\ pc = "ready"
    /\ renderer_ptr = "valid"
    /\ \E built \in BuiltRenderers, families \in SharedOrSplitFamilies :
         /\ R = init_queue_families(built.r, families).r
         /\ vk_log = built.ev
         /\ fence_signaled = [f \in Frames |-> f \in FencesCreated(built.ev)]
    /\ failed_at = "none"
    /\ image_index = NoImage
    /\ pending = {}
    /\ signal_due = {}
    /\ frames_drawn = 0
    /\ frame_log = <<>>
    /\ app = NoApp
    /\ the_app_in_use = FALSE
    /\ app_log = <<>>
    /\ last_acquired_by = <<>>

NextFrames ==
    \/ DrawFrameBegin
    \/ DrawWaitFrameFence
    \/ DrawAcquire
    \/ DrawWaitImageFence
    \/ DrawSubmit
    \/ DrawWaitIdle
    \/ GpuExecute
    \/ GpuSignalFence

SpecFrames == InitFrames /\ [][NextFrames]_vars

\* The host thread takes its next step when it is not blocked, the device
\* finishes every submission and signals the fence of every finished one.
SpecFramesFair ==
    /\ SpecFrames
    /\ WF_vars(DrawWaitFrameFence)
    /\ WF_vars(DrawAcquire)
    /\ WF_vars(DrawWaitImageFence)
    /\ WF_vars(DrawSubmit)
    /\ WF_vars(DrawWaitIdle)
    /\ WF_vars(GpuExecute)
    /\ WF_vars(GpuSignalFence)

\* ------------------------------------------------------------------------
\* The process from main on: wo_app_new, then app_run
\* ------------------------------------------------------------------------

app_new_unguarded(in_use, a, init_cb, update_cb, de_init_cb) ==
    [ok |-> TRUE,
     in_use |-> TRUE,
     app |-> [a EXCEPT !.extension_init_cb = init_cb,
                       !.extension_update_cb = update_cb,
                       !.extension_de_init_cb = de_init_cb,
                       !.renderer = "NULL"]]

\* app_new: assert(!the_app_in_use), then the guard is set and the fields
\* of the_app are filled in; the renderer starts as NULL.
app_new(in_use, a, init_cb, update_cb, de_init_cb) ==
    IF in_use THEN [ok |-> FALSE, in_use |-> in_use, app |-> a]
    ELSE [ok |-> TRUE,
          in_use |-> TRUE,
          app |-> [a EXCEPT !.extension_init_cb = init_cb,
                            !.extension_update_cb = update_cb,
                            !.extension_de_init_cb = de_init_cb,
                            !.renderer = "NULL"]]

\* wo_app_new is called: by main first, and again by any code that runs
\* later in the process. A failed assert ends the process.
WoAppNew ==
    /\ halted = "no"
    /\ Count("wo_app_new") < MaxAppNew
    /\ \E init_cb \in BOOLEAN, update_cb \in BOOLEAN, de_init_cb \in BOOLEAN :
         LET res == app_new(the_app_in_use, app, init_cb, update_cb, de_init_cb)
         IN /\ the_app_in_use' = res.in_use
            /\ app' = res.app
            /\ halted' = IF res.ok THEN "no" ELSE "assert"
            /\ app_log' = app_log \o <<"wo_app_new">>
                  \o (IF res.ok THEN <<"wo_app_new_returned">> ELSE <<>>)
            /\ pc' = IF res.ok /\ pc = "main" THEN "app_run" ELSE pc
    /\ UNCHANGED <<arena_vars, calls, renderer_ptr, R, vk_log, failed_at,
                   image_index, fence_signaled, pending, signal_due,
                   frames_drawn, frame_log, last_acquired_by>>

\* The process at the start of main: no application yet.
InitMain ==
    /\ max_node_count = 0
    /\ current_node_count = 0
    /\ node_type_table = <<>>
    /\ node_info_table = <<>>
    /\ node_is_nonroot_bitset = <<>>
    /\ halted = "no"
    /\ calls = <<>>
    /\ pc = "main"
    /\ renderer_ptr = "none"
    /\ R = ZeroRenderer
    /\ vk_log = <<>>
    /\ failed_at = "none"
    /\ image_index = NoImage
    /\ fence_signaled = [f \in Frames |-> FALSE]
    /\ pending = {}
    /\ signal_due = {}
    /\ frames_drawn = 0
    /\ frame_log = <<>>
    /\ app = NoApp
    /\ the_app_in_use = FALSE
    /\ app_log = <<>>
    /\ last_acquired_by = <<>>

NextMain ==
    \/ WoAppNew
    \/ AppRunSetup
    \/ ExtensionInit
    \/ LoopTest
    \/ Update
    \/ DrawFrame
    \/ ExtensionDeInit

SpecMain == InitMain /\ [][NextMain]_vars

\* The scene test1_init_cb builds on a renderer of max_item_count 8: two
\* spheres of radius 1 and their union.
DemoScene ==
    LET sphere1 == add_sphere_node(allocate_renderer(DemoCapacity), 1)
        sphere2 == add_sphere_node(sphere1.arena, 1)
        blob == add_union_of_node(sphere2.arena,
                                  Wo_Node_Argument(sphere1.node),
                                  Wo_Node_Argument(sphere2.node))
    IN [arena |-> blob.arena,
        calls |-> <<[op |-> "add_sphere_node", ok |-> sphere1.ok,
                     node |-> sphere1.node, left |-> NoNode, right |-> NoNode],
                    [op |-> "add_sphere_node", ok |-> sphere2.ok,
                     node |-> sphere2.node, left |-> NoNode, right |-> NoNode],
                    [op |-> "add_union_of_node", ok |-> blob.ok,
                     node |-> blob.node, left |-> sphere1.node,
                     right |-> sphere2.node]>>]

\* The demo after test1_init_cb: the renderer is built and holds the
\* demo's scene.
InitScene ==
    /\ max_node_count = DemoScene.arena.max_node_count
    /\ current_node_count = DemoScene.arena.current_node_count
    /\ node_type_table = DemoScene.arena.node_type_table
    /\ node_info_table = DemoScene.arena.node_info_table
    /\ node_is_nonroot_bitset = DemoScene.arena.node_is_nonroot_bitset
    /\ halted = "no"
    /\ calls = DemoScene.calls
    /\ pc = "ready"
    /\ renderer_ptr = "valid"
    /\ R = vk_init_renderer(1, ZeroRenderer, <<>>, 1).r
    /\ vk_log = vk_init_renderer(1, ZeroRenderer, <<>>, 1).ev
    /\ failed_at = "none"
    /\ image_index = NoImage
    /\ fence_signaled = [f \in Frames |-> TRUE]
    /\ pending = {}
    /\ signal_due = {}
    /\ frames_drawn = 0
    /\ frame_log = <<>>
    /\ app = NoApp
    /\ the_app_in_use = FALSE
    /\ app_log = <<>>
    /\ last_acquired_by = <<>>

\* Further nodes are added to the scene and frames are drawn, in any order.
NextScene ==
    \/ AddSphere
    \/ AddInfinitePlanarPartition
    \/ AddUnionOf
    \/ AddIntersectionOf
    \/ AddDifferenceOf
    \/ DrawFrameBegin
    \/ DrawWaitFrameFence
    \/ DrawAcquire
    \/ DrawWaitImageFence
    \/ DrawSubmit
    \/ DrawWaitIdle
    \/ GpuExecute
    \/ GpuSignalFence

SpecScene == InitScene /\ [][NextScene]_vars

\* The process before the application calls new_renderer.
InitLifecycle ==
    /\ max_node_count = 0
    /\ current_node_count = 0
    /\ node_type_table = <<>>
    /\ node_info_table = <<>>
    /\ node_is_nonroot_bitset = <<>>
    /\ halted = "no"
    /\ calls = <<>>
    /\ pc = "start"
    /\ renderer_ptr = "none"
    /\ R = ZeroRenderer
    /\ vk_log = <<>>
    /\ failed_at = "none"
    /\ image_index = NoImage
    /\ fence_signaled = [f \in Frames |-> FALSE]
    /\ pending = {}
    /\ signal_due = {}
    /\ frames_drawn = 0
    /\ frame_log = <<>>
    /\ app = NoApp
    /\ the_app_in_use = FALSE
    /\ app_log = <<>>
    /\ last_acquired_by = <<>>

NextLifecycle ==
    \/ NewRenderer
    \/ InitInstance
    \/ InitPhysicalDevice
    \/ InitDevice
    \/ InitSurface
    \/ InitQueueFamilies
    \/ InitSwapchainSupport
    \/ InitSwapchain
    \/ InitSwapchainImages
    \/ InitImageViews
    \/ InitRenderPass
    \/ InitDescriptorSetLayout
    \/ InitShaders
    \/ InitPipelineLayout
    \/ InitGraphicsPipeline
    \/ InitFramebuffers
    \/ InitCommandPool
    \/ InitCommandBuffers
    \/ InitUniformBuffers
    \/ InitDescriptorPool
    \/ InitDescriptorSets
    \/ InitRecordCommands
    \/ InitSyncObjects
    \/ FatalError
    \/ NewRendererReturn
    \/ DrawFrameBegin
    \/ DrawWaitFrameFence
    \/ DrawAcquire
    \/ DrawWaitImageFence
    \/ DrawSubmit
    \/ DrawWaitIdle
    \/ GpuExecute
    \/ GpuSignalFence
    \/ DelRenderer

SpecLifecycle == InitLifecycle /\ [][NextLifecycle]_vars

\* Construction up to the logical device, in either build.
SpecInstance == InitLifecycle /\ [][NextInstance]_vars

\* ------------------------------------------------------------------------
\* Properties of the arena
\* ------------------------------------------------------------------------
BinopCalls ==
    {"add_union_of_node", "add_intersection_of_node", "add_difference_of_node"}
LeafCalls == {"add_sphere_node", "add_infinite_planar_partition_node"}

OkCalls == {k \in 1..Len(calls) : calls[k].ok}
OkBinopCalls == {k \in OkCalls : calls[k].op \in BinopCalls}

\* The nodes some combinator call so far named as a child.
NamedChildren ==
    {calls[k].left : k \in OkBinopCalls} \cup {calls[k].right : k \in OkBinopCalls}

Roots == {x \in CreatedNodes : wo_renderer_isroot(Arena, x)}

\* The step is the return of a successful call of one of the ops.
Returned(ops) ==
    /\ Len(calls') = Len(calls) + 1
    /\ calls'[Len(calls')].ok
    /\ calls'[Len(calls')].op \in ops

\* C1: on an arena of capacity C the first C node-creation calls succeed,
\* the (C+1)-th fails, and the arena never holds more than C nodes.
C1_CapacityEnforced ==
    /\ current_node_count <= max_node_count
    /\ \A k \in 1..Len(calls) : calls[k].ok <=> (k <= max_node_count)

C1_Witness ==
    /\ max_node_count >= 2
    /\ Len(calls) = max_node_count + 1
    /\ ~calls[Len(calls)].ok
    /\ halted = "assert"
    /\ OkBinopCalls # {}
    /\ current_node_count = max_node_count

\* C2: a node named as a child of a combinator call is not a root after
\* that call, and never becomes a root again, whatever is called later and
\* however often it is named again.
C2_NonRootIsPermanent ==
    \A k \in OkBinopCalls :
        /\ ~wo_renderer_isroot(Arena, calls[k].left)
        /\ ~wo_renderer_isroot(Arena, calls[k].right)

C2_Witness ==
    \E j \in OkBinopCalls, k \in OkBinopCalls :
        /\ j < k
        /\ calls[j].left = calls[k].right
        /\ calls[k].left # calls[k].right
        /\ k < Len(calls)
        /\ calls[Len(calls)].ok

\* C3: a created node is a root exactly when its non-root bit is unset,
\* exactly when no combinator call so far named it as a child.
C3_RootIffNeverNamed ==
    \A x \in CreatedNodes :
        /\ wo_renderer_isroot(Arena, x) <=> x \notin NamedChildren
        /\ (x % WordBits) \notin node_is_nonroot_bitset[x \div WordBits]
             <=> x \notin NamedChildren

C3_Witness ==
    /\ Cardinality(Roots) >= 2
    /\ Cardinality(NamedChildren) >= 2
    /\ Roots \cap NamedChildren = {}

\* C4: a successful add_union/add_intersection/add_difference of two created
\* nodes A and B takes exactly one new slot U, and afterwards A and B are
\* not roots and U is a root.
C4_BinopEffect ==
    [][Returned(BinopCalls) =>
         LET c == calls'[Len(calls')] IN
           /\ current_node_count' = current_node_count + 1
           /\ c.node = current_node_count
           /\ ~wo_renderer_isroot(Arena', c.left)
           /\ ~wo_renderer_isroot(Arena', c.right)
           /\ wo_renderer_isroot(Arena', c.node)]_vars

\* The demo: capacity 8, two spheres of radius 1 unioned; the union is the
\* sole root.
C4_Witness ==
    /\ max_node_count = DemoCapacity
    /\ Len(calls) = 3
    /\ calls[1].op = "add_sphere_node" /\ calls[1].node = 0
    /\ calls[2].op = "add_sphere_node" /\ calls[2].node = 1
    /\ calls[3].op = "add_union_of_node" /\ calls[3].node = 2
    /\ calls[3].left = 0 /\ calls[3].right = 1
    /\ node_info_table[0].radius = 1 /\ node_info_table[1].radius = 1
    /\ Roots = {2}

\* C5: node indices are dense and zero-based: the k-th successful call
\* returns k-1, no index is returned twice, every index is below the
\* capacity, and the node count is the number of successful calls.
C5_DenseIndices ==
    /\ \A k \in OkCalls :
          /\ calls[k].node = Cardinality({j \in OkCalls : j < k})
          /\ calls[k].node < max_node_count
    /\ \A j \in OkCalls, k \in OkCalls : j # k => calls[j].node # calls[k].node
    /\ current_node_count = Cardinality(OkCalls)

C5_Witness ==
    /\ Cardinality(OkCalls) >= 3
    /\ \E j \in OkCalls, k \in OkCalls :
          calls[j].op \in LeafCalls /\ calls[k].op \in BinopCalls
    /\ calls[3].node = 2

\* C6: a successful add_sphere/add_infinite_plane leaves every non-root bit
\* as it was, so every existing node keeps its root status, and the new
\* leaf is a root.
C6_LeafKeepsBitset ==
    [][Returned(LeafCalls) =>
         /\ node_is_nonroot_bitset' = node_is_nonroot_bitset
         /\ \A x \in CreatedNodes :
               wo_renderer_isroot(Arena', x) <=> wo_renderer_isroot(Arena, x)
         /\ wo_renderer_isroot(Arena', calls'[Len(calls')].node)]_vars

C6_Witness ==
    /\ Len(calls) >= 4
    /\ calls[Len(calls)].ok
    /\ calls[Len(calls)].op \in LeafCalls
    /\ calls[Len(calls) - 1].op \in BinopCalls
    /\ Roots = {current_node_count - 2, current_node_count - 1}

\* ------------------------------------------------------------------------
\* Properties of the renderer's life cycle
\* ------------------------------------------------------------------------

\* new_renderer has handed a renderer to the application.
Returned_Renderer == pc = "ready" \/ Drawing \/ pc = "deleted"

\* The Vulkan objects created so far, and how often each was destroyed.
CreatedObjects ==
    {vk_log[k].obj : k \in {j \in 1..Len(vk_log) : vk_log[j].ev = "create"}}
DestroyedObjects ==
    {vk_log[k].obj : k \in {j \in 1..Len(vk_log) : vk_log[j].ev = "destroy"}}
DestroyCount(o) ==
    Cardinality({k \in 1..Len(vk_log) : vk_log[k] = Destroy(o)})

\* Every object the renderer is built from exists.
FullyBuilt(r) ==
    LET n == r.vk_swapchain_images_count IN
    /\ n >= 1
    /\ \A i \in 0..(n - 1) :
          /\ r.vk_swapchain_image_views[i] # Null
          /\ r.vk_swapchain_framebuffers[i] # Null
          /\ r.uniform_buffers[i] # Null
    /\ \A f \in Frames : r.vk_semaphores_oks[f]

\* C7: current_frame_index is 0 when new_renderer returns and N mod 2 after
\* N completed draw_frame calls; it is always 0 or 1; only the last step of
\* draw_frame changes it.
C7_FrameIndex ==
    /\ [](/\ R.current_frame_index \in {0, 1}
          /\ Returned_Renderer =>
                R.current_frame_index = frames_drawn % MAX_FRAMES_IN_FLIGHT)
    /\ [][R'.current_frame_index # R.current_frame_index =>
             /\ pc = "draw_wait_idle"
             /\ pc' = "ready"
             /\ frames_drawn' = frames_drawn + 1]_vars

C7_Witness ==
    /\ pc = "ready"
    /\ halted = "no"
    /\ frames_drawn = 3
    /\ R.current_frame_index = 1

\* C8: when construction fails, in the slab allocation or in a Vulkan
\* stage, new_renderer hands the failure to its caller and does not go
\* through the renderer pointer any more.
C8_FailureIsReturned ==
    failed_at # "none" => halted \notin UndefinedOutcomes

\* C9: after a failed stage the teardown has destroyed each object created
\* before the failure once and nothing else, and a renderer that reaches
\* the application has all of its objects.
C9_TeardownIsExact ==
    /\ (failed_at # "none" /\ pc = "new_renderer_return") =>
          /\ \A o \in CreatedObjects : DestroyCount(o) = 1
          /\ DestroyedObjects \subseteq CreatedObjects
    /\ pc = "ready" => FullyBuilt(R)

\* C10: a renderer built without any failure and destroyed before any
\* draw_frame has each of its Vulkan objects destroyed once: the N
\* framebuffers, image views and uniform buffers, the semaphores and the
\* fences among them.
C10_BuildThenDestroy ==
    (pc = "deleted" /\ frames_drawn = 0 /\ FullyBuilt(R)) =>
        /\ \A o \in CreatedObjects : DestroyCount(o) = 1
        /\ \A i \in 0..(R.vk_swapchain_images_count - 1) :
              /\ DestroyCount(Obj("framebuffer", i)) = 1
              /\ DestroyCount(Obj("image_view", i)) = 1
              /\ DestroyCount(Obj("uniform_buffer", i)) = 1

\* The places of the log where o was created and where it was destroyed.
CreatePos(o) == {k \in 1..Len(vk_log) : vk_log[k] = Create(o)}
DestroyPos(o) == {k \in 1..Len(vk_log) : vk_log[k] = Destroy(o)}

\* The objects an object of this kind is made from and must not outlive.
MadeFrom(kind) ==
    CASE kind = "instance" -> {}
      [] kind \in {"device", "surface"} -> {"instance"}
      [] kind = "swapchain" -> {"device", "surface", "instance"}
      [] OTHER -> {"device", "instance"}

\* C11 as stated: the destroy calls run in the exact reverse of the create
\* calls, so of two destroyed objects the one destroyed first was created
\* last.
C11_ExactReverseOrder ==
    \A o1 \in DestroyedObjects, o2 \in DestroyedObjects :
        \A d1 \in DestroyPos(o1), d2 \in DestroyPos(o2) :
            d1 < d2 =>
                \A c1 \in CreatePos(o1), c2 \in CreatePos(o2) : c1 > c2

\* C11 as amended: the destroy calls respect what the objects are made
\* from. No object is destroyed after an object it is made from: everything
\* made from the device goes before the device, the swapchain before the
\* surface, and the instance goes last.
C11_DestroyedBeforeParents ==
    \A d2 \in 1..Len(vk_log) :
        vk_log[d2].ev = "destroy" =>
            \A d1 \in d2..Len(vk_log) :
                vk_log[d1].ev = "destroy" =>
                    vk_log[d2].obj[1] \notin MadeFrom(vk_log[d1].obj[1])

C11_Witness ==
    /\ pc = "deleted"
    /\ FullyBuilt(R)
    /\ R.vk_swapchain_images_count >= 2
    /\ frames_drawn >= 1
    /\ Obj("instance", 0) \in DestroyedObjects
    /\ Obj("swapchain", 0) \in DestroyedObjects
    /\ Obj("framebuffer", 0) \in DestroyedObjects

\* The calls the step appends to the log.
NewCalls == SubSeq(vk_log', Len(vk_log) + 1, Len(vk_log'))

\* C12: when a logical device exists, a step that destroys anything starts
\* with vkDeviceWaitIdle and is taken only when the device has no
\* submission left to finish and no fence left to signal, however many
\* draw_frame calls came before.
C12_WaitIdleBeforeDestroy ==
    [][(/\ R.vk_device # Null
        /\ \E k \in 1..Len(NewCalls) : NewCalls[k].ev = "destroy") =>
            /\ NewCalls[1] = WaitIdle
            /\ pending = {}
            /\ signal_due = {}]_vars

C12_Witness ==
    /\ pc = "deleted"
    /\ frames_drawn >= 2
    /\ R.vk_device # Null
    /\ ~SameQueue(R)
    /\ Obj("fence", 0) \in DestroyedObjects

\* The names of the steps logged for the latest draw_frame call.
StepNames == [k \in 1..Len(frame_log) |-> frame_log[k].step]

\* What a call does between the image-fence wait and its return.
StepsAfterWaits ==
    <<"set_image_fence", "map_memory", "write_uniform_buffer", "reset_fence",
      "queue_submit", "queue_present", "queue_wait_idle",
      "advance_frame_index">>

\* The image-fence wait is made in this step.
WaitsOnImageFence ==
    /\ Len(frame_log') = Len(frame_log) + 1
    /\ frame_log'[Len(frame_log')].step = "wait_image_fence"

\* C13: a draw_frame call that returns has, for its slot f and its image i:
\* waited on f's fence, acquired i, waited on i's owning fence if and only
\* if i had one, recorded f's fence as i's owner, written i's uniform
\* buffer, reset f's fence, submitted, presented, waited for the present
\* queue and advanced the index, in this order.
C13_DrawFrameOrder ==
    /\ []((pc \in {"ready", "deleted"} /\ frames_drawn > 0) =>
            LET f == (frames_drawn - 1) % MAX_FRAMES_IN_FLIGHT IN
            /\ \/ StepNames = <<"wait_frame_fence", "acquire_next_image">>
                                  \o StepsAfterWaits
               \/ StepNames = <<"wait_frame_fence", "acquire_next_image",
                                "wait_image_fence">> \o StepsAfterWaits
            /\ \A k \in 1..Len(frame_log) :
                  /\ frame_log[k].step # "wait_image_fence" =>
                        frame_log[k].slot = f
                  /\ k > 1 => frame_log[k].image = image_index)
    /\ [][(pc = "draw_wait_image_fence" /\ pc' = "draw_submit") =>
             /\ WaitsOnImageFence <=>
                   R.vk_images_inflight_fences[image_index] # Null
             /\ WaitsOnImageFence =>
                   frame_log'[Len(frame_log')].slot =
                       SlotOf(R.vk_images_inflight_fences[image_index])]_vars

C13_Witness ==
    /\ pc = "ready"
    /\ frames_drawn = 2
    /\ Len(frame_log) = 11
    /\ frame_log[3].step = "wait_image_fence"
    /\ frame_log[3].slot = 0
    /\ frame_log[4].slot = 1

\* C14: when draw_frame is about to overwrite the uniform buffer of the
\* image it acquired, the device is executing no submission of that
\* image's command buffer, for every image count and every order of
\* acquired images.
C14_UniformWriteIsSafe ==
    pc = "draw_submit" => \A s \in pending : s.image # image_index

C14_Witness ==
    /\ pc = "draw_submit"
    /\ halted = "no"
    /\ R.vk_swapchain_images_count >= 2
    /\ R.vk_images_inflight_fences[image_index] # Null
    /\ SlotOf(R.vk_images_inflight_fences[image_index]) # R.current_frame_index
    /\ ~SameQueue(R)
    /\ frames_drawn >= 2

\* The submissions the host does not know to be complete: those the device
\* is executing and those whose fence it has yet to signal.
Outstanding == Cardinality(pending) + Cardinality(signal_due)

\* C15: the host never has more than MAX_FRAMES_IN_FLIGHT = 2 submissions
\* outstanding, whatever the number of swapchain images.
C15_AtMostTwoInFlight == Outstanding <= MAX_FRAMES_IN_FLIGHT

C15_Witness ==
    /\ Cardinality(pending) = 2
    /\ R.vk_swapchain_images_count = 3
    /\ halted = "no"

\* A vkCreateFramebuffer call of the framebuffer stage failed.
FramebufferFailed ==
    \E i \in DOMAIN R.vk_swapchain_framebuffers :
        R.vk_swapchain_framebuffers[i] = Null

\* Construction has stopped: the process died in the failing stage, or
\* control is in fatal_error or back in new_renderer without a renderer.
ConstructionAborted ==
    \/ halted # "no"
    \/ pc = "fatal_error"
    \/ pc = "new_renderer_return" /\ renderer_ptr = "NULL"

\* C16: once a creation call of a construction stage has failed,
\* construction is aborted and no later stage runs.
C16_FailureAbortsConstruction ==
    (failed_at \in {Stages[k] : k \in 1..Len(Stages)} \/ FramebufferFailed) =>
        ConstructionAborted

\* C17: a driver call of draw_frame that fails is the last thing the call
\* does: the process stops there, and draw_frame neither goes on to its
\* next step nor returns.
C17_DriverFailureHalts ==
    \A k \in 1..Len(frame_log) :
        ~frame_log[k].ok =>
            /\ halted # "no"
            /\ k = Len(frame_log)
            /\ Drawing

\* The stage has run: control is past it, or it is where construction
\* failed.
HasRun(stage) ==
    \/ failed_at = stage
    \/ failed_at \in {Stages[k] : k \in (StageIndex(stage) + 1)..Len(Stages)}
    \/ pc \in {Stages[k] : k \in (StageIndex(stage) + 1)..Len(Stages)}
    \/ failed_at = "none" /\ pc = "new_renderer_return"
    \/ Returned_Renderer

\* A list of queue families without a graphics family or without a family
\* that can present.
LacksQueueFamily(families) ==
    \/ \A k \in 1..Len(families) : ~families[k].graphics
    \/ \A k \in 1..Len(families) : ~families[k].present

\* C18: construction is aborted, and no renderer reaches the application,
\* when there is no physical device, when the mandatory device extension
\* is missing, when no queue family has graphics or none can present, and
\* when the surface has no format or no present mode.
C18_MissingCapabilityAborts ==
    /\ (HasRun("init_physical_device") /\ R.vk_physical_device_count = 0) =>
          ConstructionAborted /\ failed_at = "init_physical_device"
    /\ (HasRun("init_device") /\ R.vk_enabled_device_extension_count = 0) =>
          ConstructionAborted /\ failed_at = "init_device"
    /\ (HasRun("init_queue_families")
        /\ \/ R.vk_graphics_queue_family_index = R.vk_queue_family_count
           \/ R.vk_present_queue_family_index = R.vk_queue_family_count) =>
          ConstructionAborted /\ failed_at = "init_queue_families"
    /\ pc = "init_queue_families" =>
          \A families \in QueueFamilyLists :
              LET res == init_queue_families(R, families) IN
              LacksQueueFamily(families) <=>
                  \/ res.r.vk_graphics_queue_family_index = Len(families)
                  \/ res.r.vk_present_queue_family_index = Len(families)
    /\ (HasRun("init_swapchain_support")
        /\ \/ R.vk_available_format_count = 0
           \/ R.vk_available_present_mode_count = 0) =>
          ConstructionAborted /\ failed_at = "init_swapchain_support"

C18_Witness ==
    /\ failed_at = "init_swapchain_support"
    /\ R.vk_available_format_count > 0
    /\ R.vk_available_present_mode_count = 0
    /\ R.vk_queue_family_count = 2
    /\ pc = "new_renderer_return"
    /\ renderer_ptr = "NULL"

\* The stages that build the pipeline, and the objects they create.
PipelineStages == {"init_shaders", "init_pipeline_layout", "init_graphics_pipeline"}
PipelineObjects ==
    {o \in CreatedObjects :
        o[1] \in {"shader_module", "pipeline_layout", "pipeline"}}

\* C19: a failure while the pipeline is built, a shader that cannot be
\* loaded included, goes through the teardown, and after the teardown
\* every shader module, layout and pipeline that had been created is
\* destroyed.
C19_PipelineFailureTornDown ==
    failed_at \in PipelineStages =>
        /\ halted # "assert"
        /\ pc = "new_renderer_return" =>
              \A o \in PipelineObjects : DestroyCount(o) = 1

\* The image counts asked of vkCreateSwapchainKHR so far.
RequestedImageCounts ==
    {vk_log[k].obj[2] :
        k \in {j \in 1..Len(vk_log) : vk_log[j].ev = "create_info"}}

\* C20: the image count asked of the swapchain is never below the
\* surface's minimum, and is the minimum plus one when the surface reports
\* a maximum of 0, which means no maximum.
C20_ImageCountRequested ==
    \A n \in RequestedImageCounts :
        LET caps == R.vk_present_surface_capabilities IN
        /\ n >= caps.minImageCount
        /\ caps.maxImageCount = 0 => n = caps.minImageCount + 1

\* The indices of the families with a capability, "graphics" or "present".
FamiliesWith(families, capability) ==
    {k \in 0..(Len(families) - 1) : families[k + 1][capability]}
Min(S) == CHOOSE x \in S : \A y \in S : x <= y

\* The index at which the scan stops: the first one by which a graphics
\* family and a present family have both been seen.
StopIndex(families) ==
    Max({Min(FamiliesWith(families, "graphics")),
         Min(FamiliesWith(families, "present"))})

\* C21 as stated: for every list of families that has both kinds, the
\* graphics family chosen is the lowest-index family with graphics
\* capability and the present family chosen is the lowest-index family
\* that can present.
C21_FirstFamilyChosen ==
    pc = "init_queue_families" =>
        \A families \in QueueFamilyLists :
            LET res == init_queue_families(R, families) IN
            ~LacksQueueFamily(families) =>
                /\ res.r.vk_graphics_queue_family_index =
                       Min(FamiliesWith(families, "graphics"))
                /\ res.r.vk_present_queue_family_index =
                       Min(FamiliesWith(families, "present"))

\* C21 amended: for every list of families that has both kinds, the scan
\* stops at the first index by which both kinds have been seen, and the
\* family chosen for each kind is the highest-index family of that kind
\* up to that index; so each chosen family has its capability.
C21_LastFamilyBeforeStop ==
    pc = "init_queue_families" =>
        \A families \in QueueFamilyLists :
            LET res == init_queue_families(R, families)
                UpToStop(capability) ==
                    {k \in FamiliesWith(families, capability) :
                        k <= StopIndex(families)}
            IN ~LacksQueueFamily(families) =>
                /\ res.out = "ok"
                /\ res.r.vk_graphics_queue_family_index =
                       Max(UpToStop("graphics"))
                /\ res.r.vk_present_queue_family_index =
                       Max(UpToStop("present"))

\* Two families were enumerated and the second was chosen for graphics.
C21_Witness ==
    /\ HasRun("init_queue_families")
    /\ failed_at = "none"
    /\ R.vk_queue_family_count = 2
    /\ R.vk_graphics_queue_family_index = 1
    /\ R.vk_present_queue_family_index = 1

\* The 0-based indices of the ideal entries of the available formats.
IdealEntries ==
    {k \in 0..(Len(R.vk_available_formats) - 1) :
        R.vk_available_formats[k + 1] =
            [format |-> "VK_FORMAT_B8G8R8A8_SRGB",
             colorSpace |-> "VK_COLOR_SPACE_SRGB_NONLINEAR_KHR"]}

\* C22: for every non-empty list of available formats the chosen format is
\* the first entry equal to {BGRA8 sRGB, sRGB-nonlinear} when there is one
\* and the entry at index 0 otherwise.
C22_FormatChosen ==
    pc # "choose_present_format" =>
        R.vk_chosen_present_surface_format =
            IF IdealEntries # {}
            THEN R.vk_available_formats[Min(IdealEntries) + 1]
            ELSE R.vk_available_formats[1]

\* A format was chosen from a list whose first entry has the ideal format
\* in another colour space and whose second entry is ideal.
C22_Witness ==
    /\ pc = "choose_present_mode"
    /\ IdealEntries = {1}
    /\ R.vk_available_formats[1].format = "VK_FORMAT_B8G8R8A8_SRGB"

\* The present modes the surface reported.
AvailableModes ==
    {R.vk_available_present_modes[k] :
        k \in 1..Len(R.vk_available_present_modes)}

\* C23: for every non-empty list of available present modes the chosen mode
\* is MAILBOX when the list contains MAILBOX and FIFO otherwise.
C23_PresentModeChosen ==
    pc \notin {"choose_present_format", "choose_present_mode"} =>
        R.vk_chosen_present_surface_mode =
            IF "VK_PRESENT_MODE_MAILBOX_KHR" \in AvailableModes
            THEN "VK_PRESENT_MODE_MAILBOX_KHR"
            ELSE "VK_PRESENT_MODE_FIFO_KHR"

\* A mode was chosen from a list that holds neither MAILBOX nor FIFO.
C23_Witness ==
    /\ pc = "init_swapchain"
    /\ AvailableModes = {"VK_PRESENT_MODE_IMMEDIATE_KHR"}

\* The layer lists vkCreateInstance was asked for so far.
InstanceLayerRequests ==
    {vk_log[k].obj[2] :
        k \in {j \in 1..Len(vk_log) :
                  /\ vk_log[j].ev = "enabled_layers"
                  /\ vk_log[j].obj[1] = "instance"}}

\* The names of the layers the platform reported.
AvailableLayers ==
    {R.vk_available_validation_layers[k] :
        k \in 1..Len(R.vk_available_validation_layers)}

\* C24: with validation enabled, whichever layers are available the
\* instance stage fails only when vkCreateInstance itself fails, and the
\* instance is asked for exactly the desired layers that are available: a
\* desired layer that is missing is left out.
C24_MissingLayerIsNotFatal ==
    /\ pc = "init_instance" =>
          \A available \in LayerLists, ok \in BOOLEAN :
              init_instance(R, TRUE, available, ok).out =
                  IF ok THEN "ok" ELSE "fatal"
    /\ (HasRun("init_instance") /\ R.are_vk_validation_layers_enabled) =>
          /\ InstanceLayerRequests = {R.vk_enabled_validation_layer_names}
          /\ R.vk_enabled_validation_layer_names =
                 SelectSeq(default_vk_validation_layer_names,
                           LAMBDA name : name \in AvailableLayers)
          /\ R.vk_enabled_validation_layer_count =
                 Len(R.vk_enabled_validation_layer_names)

\* The instance was created in a debug build on a platform that reports
\* layers, none of them the desired one.
C24_Witness ==
    /\ pc = "init_physical_device"
    /\ R.are_vk_validation_layers_enabled
    /\ R.vk_instance # Null
    /\ AvailableLayers # {}
    /\ "VK_LAYER_KHRONOS_validation" \notin AvailableLayers
    /\ InstanceLayerRequests = {<<>>}

\* Where an entry occurs in the history of app_run.
Positions(entries) == {k \in 1..Len(app_log) : app_log[k] \in entries}

\* C25: in a run of app_run with the callbacks given, the init callback is
\* invoked once and before every update callback and every draw_frame; the
\* de-init callback is invoked at most once, after every update callback
\* and every draw_frame, and exactly once when app_run returns true.
C25_CallbackOrder ==
    LET inits == Positions({"extension_init_cb"})
        de_inits == Positions({"extension_de_init_cb"})
        work == Positions({"extension_update_cb", "wo_renderer_draw_frame"})
    IN /\ Cardinality(inits) <= 1
       /\ Cardinality(de_inits) <= 1
       /\ app.extension_init_cb =>
             \A k \in work : \E i \in inits : i < k
       /\ \A k \in work : \A d \in de_inits : k < d
       /\ (pc = "app_run_returned_true" /\ app.extension_init_cb) =>
             Cardinality(inits) = 1
       /\ (pc = "app_run_returned_true" /\ app.extension_de_init_cb) =>
             Cardinality(de_inits) = 1

\* app_run returned true after updates and frames, all callbacks given.
C25_Witness ==
    /\ pc = "app_run_returned_true"
    /\ app.extension_init_cb
    /\ app.extension_de_init_cb
    /\ Count("extension_update_cb") >= 2
    /\ Count("wo_renderer_draw_frame") >= 2
    /\ Count("extension_de_init_cb") = 1

\* C26: every iteration of the display loop calls draw_frame exactly once,
\* whether no, one or several update callbacks ran in it.
C26_DrawOncePerIteration ==
    Count("wo_renderer_draw_frame") =
        IF pc = "updating" THEN Count("loop_iteration") - 1
        ELSE Count("loop_iteration")

\* Two iterations are over, one without an update and one with two.
C26_Witness ==
    /\ pc = "loop_test"
    /\ Count("loop_iteration") = 2
    /\ \E k \in 1..(Len(app_log) - 1) :
          /\ app_log[k] = "loop_iteration"
          /\ app_log[k + 1] = "wo_renderer_draw_frame"
    /\ \E k \in 1..(Len(app_log) - 2) :
          /\ app_log[k] = "extension_update_cb"
          /\ app_log[k + 1] = "extension_update_cb"
          /\ app_log[k + 2] = "wo_renderer_draw_frame"

\* C27: in a run with the demo's callbacks, wo_renderer_new is called once
\* and before every draw_frame, and when app_run returns true with a
\* renderer created, wo_renderer_del was called exactly once, after the
\* last draw_frame.
C27_RendererTornDown ==
    LET news == Positions({"wo_renderer_new"})
        dels == Positions({"wo_renderer_del"})
        draws == Positions({"wo_renderer_draw_frame"})
    IN /\ Cardinality(news) <= 1
       /\ app.extension_init_cb =>
             \A k \in draws : \E n \in news : n < k
       /\ \A k \in draws : \A d \in dels : k < d
       /\ (pc = "app_run_returned_true" /\ app.renderer = "valid") =>
             Cardinality(dels) = 1

\* The submissions of frame slot f whose fence the device has yet to
\* signal.
SlotOutstanding(f) ==
    Cardinality({s \in pending : s.slot = f})
        + (IF f \in signal_due THEN 1 ELSE 0)

\* C28: a frame slot has at most one submission outstanding, and while the
\* process runs its fence is unsignaled exactly while it has one;
\* draw_frame reaches the fence reset and the submit of a slot only with
\* that slot's fence signaled and nothing of the slot outstanding; and the
\* first two frames find their slot's fence signaled.
C28_SlotCycle ==
    /\ \A f \in Frames : SlotOutstanding(f) <= 1
    /\ halted = "no" =>
          \A f \in Frames :
              (R.vk_inflight_fences[f] # Null /\ renderer_ptr = "valid") =>
                  (fence_signaled[f] <=> SlotOutstanding(f) = 0)
    /\ (pc = "draw_submit" /\ halted = "no") =>
          /\ fence_signaled[R.current_frame_index]
          /\ SlotOutstanding(R.current_frame_index) = 0
    /\ (pc = "draw_wait_frame_fence" /\ frames_drawn < MAX_FRAMES_IN_FLIGHT) =>
          fence_signaled[R.current_frame_index]

\* The third frame is about to submit on slot 0 again while the second
\* frame's submission on slot 1 is still executing.
C28_Witness ==
    /\ pc = "draw_submit"
    /\ halted = "no"
    /\ frames_drawn = 2
    /\ R.current_frame_index = 0
    /\ \E s \in pending : s.slot = 1

\* The renderer is built and no draw_frame call is under way.
BetweenFrames ==
    /\ pc = "ready"
    /\ halted = "no"
    /\ renderer_ptr = "valid"

\* C29: between draw_frame calls the table vk_images_inflight_fences has
\* one entry per swapchain image; the entry of an image is empty exactly
\* when no frame slot ever acquired the image, and is otherwise the fence
\* of the slot that acquired it last; so it is all empty after
\* construction and every entry that is not empty is one of the two slot
\* fences.
C29_ImageOwnerTable ==
    BetweenFrames =>
        LET table == R.vk_images_inflight_fences IN
        /\ DOMAIN table = 0..(R.vk_swapchain_images_count - 1)
        /\ \A i \in DOMAIN table :
              /\ table[i] = Null <=> i \notin DOMAIN last_acquired_by
              /\ i \in DOMAIN last_acquired_by =>
                    table[i] = R.vk_inflight_fences[last_acquired_by[i]]
              /\ table[i] # Null =>
                    table[i] \in {R.vk_inflight_fences[f] : f \in Frames}
        /\ frames_drawn = 0 => \A i \in DOMAIN table : table[i] = Null

\* After three frames one image is owned by the slot that acquired it
\* second, another image was never acquired.
C29_Witness ==
    /\ BetweenFrames
    /\ frames_drawn = 3
    /\ R.vk_swapchain_images_count >= 2
    /\ R.vk_images_inflight_fences[0] = R.vk_inflight_fences[1]
    /\ R.vk_images_inflight_fences[1] = Null

\* The children the node-creation call of this step names, if the step is
\* one.
ChildrenOfThisCall ==
    IF Len(calls') = Len(calls) THEN {}
    ELSE {calls'[Len(calls')].left, calls'[Len(calls')].right} \ {NoNode}

\* C30: no step, node creation or draw_frame, changes the kind or the
\* payload of a node that exists; a step writes no slot of the tables but
\* the one of the node it creates, sets no non-root bit but those of the
\* children named in the call, clears none, and draw_frame writes nothing
\* of the arena.
C30_NodesAreImmutable ==
    [][/\ \A n \in CreatedNodes :
             /\ node_type_table'[n] = node_type_table[n]
             /\ node_info_table'[n] = node_info_table[n]
       /\ \A n \in DOMAIN node_type_table :
             n # current_node_count =>
                /\ node_type_table'[n] = node_type_table[n]
                /\ node_info_table'[n] = node_info_table[n]
       /\ \A w \in DOMAIN node_is_nonroot_bitset :
             /\ node_is_nonroot_bitset[w] \subseteq node_is_nonroot_bitset'[w]
             /\ \A b \in node_is_nonroot_bitset'[w] \ node_is_nonroot_bitset[w] :
                   (w * WordBits + b) \in ChildrenOfThisCall
       /\ (pc # "ready" \/ pc' # "ready") => UNCHANGED arena_vars]_vars

\* A node was added to the demo's scene and frames were drawn; the
\* demo's first sphere and its union are as they were created.
C30_Witness ==
    /\ pc = "ready"
    /\ halted = "no"
    /\ current_node_count = 4
    /\ node_type_table[3] \in BinopTypes
    /\ frames_drawn >= 1
    /\ node_info_table[0].radius = 1
    /\ node_type_table[2] = "WO_NODE_BINOP_UNION_OF"

\* The fields of the renderer that hold per-frame state.
PerFrameFields == {"current_frame_index", "vk_images_inflight_fences"}

\* The calls that touch per-frame state only: fences, semaphores, the
\* swapchain image in hand, the uniform buffer of that image, the queues.
PerFrameSteps ==
    {"wait_frame_fence", "acquire_next_image", "wait_image_fence",
     "set_image_fence", "map_memory", "write_uniform_buffer", "reset_fence",
     "queue_submit", "queue_present", "queue_wait_idle",
     "advance_frame_index"}

\* The step belongs to a draw_frame call: it is taken inside one, or it
\* enters one.
DrawFrameStep == Drawing \/ pc' # pc

\* The step is a node-creation call.
ArenaStep == calls' # calls

\* C31: a step of draw_frame leaves the arena (node count, node tables,
\* non-root bits) as it is, changes no field of the renderer but
\* current_frame_index and the image-to-fence table, creates and destroys
\* no Vulkan object and makes no call but those on fences, semaphores,
\* the acquired image, its uniform buffer and the queues: none that
\* records a command buffer. A node-creation call leaves every field of
\* the renderer's Vulkan state, current_frame_index among them, and the
\* state of the device as they are.
C31_DrawAndArenaAreSeparate ==
    [][/\ DrawFrameStep =>
            /\ UNCHANGED <<arena_vars, calls>>
            /\ \A field \in (DOMAIN R) \ PerFrameFields : R'[field] = R[field]
            /\ vk_log' = vk_log
            /\ \A k \in 1..Len(frame_log') :
                  frame_log'[k].step \in PerFrameSteps
       /\ ArenaStep =>
            /\ ~DrawFrameStep
            /\ UNCHANGED <<R, vk_log, image_index, fence_signaled, pending,
                           signal_due, frames_drawn, frame_log>>]_vars

\* Two frames were drawn, one in each slot, around a node-creation call:
\* the image is on record under a slot's fence and the scene has grown.
C31_Witness ==
    /\ pc = "ready"
    /\ halted = "no"
    /\ frames_drawn = 2
    /\ R.current_frame_index = 0
    /\ R.vk_images_inflight_fences[0] # Null
    /\ R.vk_command_buffers_ok
    /\ Len(calls) = 4
    /\ calls[4].ok

\* The step calls wo_app_new.
CallsAppNew ==
    /\ Len(app_log') > Len(app_log)
    /\ app_log'[Len(app_log) + 1] = "wo_app_new"

\* C32: wo_app_new returns an application at most once in a process; a
\* call made while the guard is set ends in the failed assert, returns
\* nothing and leaves the application as it is; and no step clears the
\* guard once it is set.
C32_OneAppPerProcess ==
    [][/\ the_app_in_use => the_app_in_use'
       /\ (CallsAppNew /\ the_app_in_use) =>
             /\ halted' = "assert"
             /\ app' = app
             /\ app_log' = Append(app_log, "wo_app_new")
       /\ (CallsAppNew /\ ~the_app_in_use) => the_app_in_use'
       /\ Cardinality({k \in 1..Len(app_log') :
                          app_log'[k] = "wo_app_new_returned"}) <= 1]_vars

\* wo_app_new was called a second time, after the loop had drawn a frame,
\* and the process ended in the assert with the guard still set.
C32_Witness ==
    /\ Count("wo_app_new") = 2
    /\ Count("wo_app_new_returned") = 1
    /\ Count("wo_renderer_draw_frame") >= 1
    /\ halted = "assert"
    /\ the_app_in_use

\* The fence the host is waiting on, VK_NULL_HANDLE when it waits on none.
FenceWaitedOn ==
    CASE halted # "no" -> Null
      [] pc = "draw_wait_frame_fence" ->
            R.vk_inflight_fences[R.current_frame_index]
      [] pc = "draw_wait_image_fence" ->
            R.vk_images_inflight_fences[image_index]
      [] OTHER -> Null

\* The device will signal the fence: a submission made with it is being
\* executed, or has finished and its fence is due.
SignalPending(f) ==
    \/ \E s \in pending : s.slot = SlotOf(f)
    \/ SlotOf(f) \in signal_due

\* C33: the fence the host waits on is signaled or has a submission that
\* will signal it; and, the device finishing what it is given and the
\* swapchain answering, a draw_frame call that began comes to its end: it
\* returns, or the process ends in it.
C33_DrawFrameTerminates ==
    /\ [](FenceWaitedOn # Null =>
            (fence_signaled[SlotOf(FenceWaitedOn)] \/ SignalPending(FenceWaitedOn)))
    /\ (Drawing /\ halted = "no") ~> (pc = "ready" \/ halted # "no")

\* The host is blocked in its third call on the fence of slot 0, which the
\* submission of the first call has yet to signal.
C33_Witness ==
    /\ pc = "draw_wait_frame_fence"
    /\ halted = "no"
    /\ frames_drawn = 2
    /\ R.vk_swapchain_images_count >= 2
    /\ ~fence_signaled[SlotOf(FenceWaitedOn)]
    /\ SignalPending(FenceWaitedOn)

\* C34: once the family search has succeeded, the family the logical
\* device was created with a queue for is the graphics family the search
\* chose, the family vk_graphics_queue is then retrieved from.
C34_DeviceQueueIsGraphicsQueue ==
    pc = "init_swapchain_support" =>
        R.vk_device_queue_family_index = R.vk_graphics_queue_family_index

\* C35: when the display loop has called draw_frame, the application
\* holds a renderer: the init callback installed one that wo_renderer_new
\* had built.
C35_DrawOnlyOnRenderer ==
    Count("wo_renderer_draw_frame") > 0 => app.renderer = "valid"

\* C36: a node-creation call that returns an index and writes a node has
\* taken one slot of the arena, the one whose index it returns; stated
\* for the build with NDEBUG, where the call is made of the same source.
C36_CallAllocatesItsSlot ==
    [][calls' # calls =>
          \/ halted' # "no"
          \/ /\ current_node_count' = current_node_count + 1
             /\ calls'[Len(calls')].node = current_node_count]_vars

\* C37: a node-creation call made on a full arena fails and leaves the
\* node count, the kind and the payload of every node and every non-root
\* bit as they were, the bits of the children a combinator call names
\* among them.
C37_FullArenaUnchanged ==
    [][(calls' # calls /\ current_node_count = max_node_count) =>
          /\ ~calls'[Len(calls')].ok
          /\ UNCHANGED arena_vars]_vars

\* A combinator call failed on a full arena of two nodes, and the two
\* roots it named are roots still.
C37_Witness ==
    /\ max_node_count = 2
    /\ current_node_count = 2
    /\ Len(calls) = 3
    /\ ~calls[3].ok
    /\ calls[3].op \in {"add_union_of_node", "add_intersection_of_node",
                        "add_difference_of_node"}
    /\ calls[3].left # calls[3].right
    /\ wo_renderer_isroot(Arena, calls[3].left)
    /\ wo_renderer_isroot(Arena, calls[3].right)

====
